---- MODULE Spec2Model ----
(***************************************************************************)
(* A state-machine model of the 417lang tree-walking interpreter           *)
(* (src/interpreter/src).  The recursive Rust evaluator Expr::eval is      *)
(* unfolded into an explicit stack of pending Rust calls: every action is  *)
(* one entry into, or one return from, a function of the interpreter.      *)
(* Frames (LocalEnvironment behind Rc<RefCell<..>>) live in a heap and are *)
(* referred to by their index, so that sharing between holders is kept.    *)
(***************************************************************************)
EXTENDS Integers, Sequences, FiniteSets, TLC

VARIABLES
    program,        \* the AST handed to Expr::eval by interpret_default
    lexical_scope,  \* Environment.lexical_scope
    store_output,   \* Environment.store_output
    output,         \* Environment.output (captured chunks)
    stdout,         \* what print!/println!/dbg! wrote directly
    heap,           \* all LocalEnvironment frames ever allocated, by handle
    local,          \* Interpreter.local: handle of the current frame
    ctl,            \* <<"eval", json>> | <<"ret", result>> | <<"abort", msg>>
    stack,          \* pending Rust calls, innermost first
    evals,          \* history: every value passed to Expr::eval, in order
    assigns,        \* history: names changed by a successful assignment
    last,           \* history: the step taken last and what it saw
    source,         \* Lexer.source: the text handed to parse, as characters
    input,          \* Lexer.input: how many characters the iterator has yielded
    current_location, \* Lexer.current_location
    errors,         \* Lexer.errors: the locations of the reported errors
    tokens,         \* the Vec<TokenContainer> that parse collects
    token_source,   \* the `source` field of the container being built
    lex_pc,         \* "idle" | "parse" | "skip" | "comment" | "done" | "abort"
    starts,         \* history: the byte offset at which each token began
    current,        \* Parser.current: index of the current token, from 0
    parsed          \* what parse_program returned, <<"None">> before it ran

interp_vars == <<program, lexical_scope, store_output, output, stdout, heap,
                 local, ctl, stack, evals, assigns, last>>

lexer_vars == <<source, input, current_location, errors, tokens, token_source,
                lex_pc, starts>>

parser_vars == <<current, parsed>>

vars == <<interp_vars, lexer_vars, parser_vars>>

-----------------------------------------------------------------------------
(* Bounds of the model.                                                    *)

\* frames that one run may allocate
MaxFrames == 40
\* clauses of a generated cond
MaxClauses == 3
\* expressions of a generated block
MaxBlockLen == 3

-----------------------------------------------------------------------------
(* The JSON-shaped AST (serde_json::Value as the parser emits it).         *)

Num(n)        == <<"Number", n>>
Str(s)        == <<"String", s>>
Arr(items)    == <<"Array", items>>
Id(n)         == <<"Identifier", n>>
Block(items)  == <<"Block", Arr(items)>>
Lambda(ps, items) == <<"Lambda", ps, Arr(items)>>
App(items)    == <<"Application", Arr(items)>>
Clause(c, r)  == <<c, r>>
Cond(clauses) == <<"Cond", clauses>>
Let(n, e)     == <<"Let", n, e>>
Def(n, e)     == <<"Def", n, e>>
Assign(n, e)  == <<"Assignment", n, e>>

-----------------------------------------------------------------------------
(* Runtime values (enum Expr) and results (Result<Expr, InterpError>).      *)

Integer(n)   == <<"Integer", n>>
Boolean(b)   == <<"Boolean", b>>
String(s)    == <<"String", s>>
List(l)      == <<"List", l>>
CoreFunction(name) == <<"CoreFunction", name>>
Function(name, args, func, env) == <<"Function", name, args, func, env>>

Ok(v)  == <<"Ok", v>>
Err(e) == <<"Err", e>>
IsOk(r)  == r[1] = "Ok"
IsErr(r) == r[1] = "Err"

ParseError(message)            == <<"ParseError", message>>
ArgumentError(func, exp, got)  == <<"ArgumentError", func, exp, got>>
UndefinedError(symbol)         == <<"UndefinedError", symbol>>
TypeError(expected, found)     == <<"TypeError", expected, found>>

IsFunctionValue(v) == v[1] \in {"CoreFunction", "Function"}

\* impl fmt::Display for Expr
RECURSIVE Display(_)
RECURSIVE JoinDisplay(_)
JoinDisplay(l) ==
    IF Len(l) = 0 THEN ""
    ELSE IF Len(l) = 1 THEN Display(l[1])
    ELSE Display(l[1]) \o ", " \o JoinDisplay(Tail(l))
Display(v) ==
    CASE v[1] = "Integer" -> ToString(v[2])
      [] v[1] = "Boolean" -> IF v[2] THEN "true" ELSE "false"
      [] v[1] = "String"  -> v[2]
      [] v[1] = "List"    -> JoinDisplay(v[2])
      [] v[1] = "CoreFunction" -> "function: " \o v[2]
      [] v[1] = "Function"     -> "function: " \o v[2]

-----------------------------------------------------------------------------
(* LocalEnvironment: frames in a heap, handle 0 is "no parent".            *)

NoVars == [n \in {} |-> 0]

CoreNames == <<"print", "println", "dbg", "equal?", "greater?", "less?",
               "add", "sub", "mul", "div", "rem", "zero?", "to_uppercase",
               "to_lowercase", "concat", "contains", "length", "as_list",
               "get", "set", "sort">>

\* LocalEnvironment::default_environment
default_environment ==
    [variables |->
        [n \in {CoreNames[k] : k \in 1..Len(CoreNames)} |-> CoreFunction(n)]
        @@ ("x" :> Integer(10)) @@ ("v" :> Integer(5)) @@ ("i" :> Integer(1))
        @@ ("true" :> Boolean(TRUE)) @@ ("false" :> Boolean(FALSE)),
     parent |-> 0]

\* LocalEnvironment::from_parent: allocate an empty frame below parent;
\* the new handle is Len(h) + 1
from_parent(h, parent) == Append(h, [variables |-> NoVars, parent |-> parent])

\* LocalEnvironment::bind: insert every pair, later pairs win
RECURSIVE bind_vars(_, _)
bind_vars(variables, pairs) ==
    IF Len(pairs) = 0 THEN variables
    ELSE bind_vars((pairs[1][1] :> pairs[1][2]) @@ variables, Tail(pairs))

bind(h, l, pairs) ==
    [h EXCEPT ![l] = [variables |-> bind_vars(h[l].variables, pairs),
                      parent |-> h[l].parent]]

\* LocalEnvironment::lookup: first hit walking child to parent
RECURSIVE lookup(_, _, _)
lookup(h, l, binding) ==
    IF binding \in DOMAIN h[l].variables THEN <<"Some", h[l].variables[binding]>>
    ELSE IF h[l].parent # 0 THEN lookup(h, h[l].parent, binding)
    ELSE <<"None">>

\* an assignment that inserts into the current frame when no frame has the name
RECURSIVE assignment_insert(_, _, _, _)
assignment_insert(h, l, identifier, new_value) ==
    IF identifier \in DOMAIN h[l].variables \/ h[l].parent = 0
    THEN [heap |-> [h EXCEPT ![l] =
                      [variables |-> (identifier :> new_value) @@ h[l].variables,
                       parent |-> h[l].parent]],
          result |-> Ok(new_value)]
    ELSE assignment_insert(h, h[l].parent, identifier, new_value)

\* an assignment that changes every frame of the chain that has the name
RECURSIVE assignment_all(_, _, _, _)
assignment_all(h, l, identifier, new_value) ==
    LET here == IF identifier \in DOMAIN h[l].variables
                THEN [h EXCEPT ![l] =
                        [variables |-> (identifier :> new_value) @@ h[l].variables,
                         parent |-> h[l].parent]]
                ELSE h
        up   == IF h[l].parent # 0
                THEN assignment_all(here, h[l].parent, identifier, new_value)
                ELSE [heap |-> here, result |-> Err(UndefinedError(identifier))]
    IN  [heap |-> up.heap,
         result |-> IF identifier \in DOMAIN h[l].variables
                    THEN Ok(new_value) ELSE up.result]

\* LocalEnvironment::assignment: change the first frame that has the name
RECURSIVE assignment(_, _, _, _)
assignment(h, l, identifier, new_value) ==
    IF identifier \in DOMAIN h[l].variables
    THEN [heap |-> [h EXCEPT ![l] =
                      [variables |-> (identifier :> new_value) @@ h[l].variables,
                       parent |-> h[l].parent]],
          result |-> Ok(new_value)]
    ELSE IF h[l].parent # 0 THEN assignment(h, h[l].parent, identifier, new_value)
    ELSE [heap |-> h, result |-> Err(UndefinedError(identifier))]

\* Interpreter::enter_new_local: a blank child of the current frame becomes
\* current; the caller gets the previous handle back
enter_new_local(h, l) ==
    [heap |-> from_parent(h, l), local |-> Len(h) + 1, old_local |-> l]

-----------------------------------------------------------------------------
(* Built-in functions (functions.rs).  i64 is modelled IntBits wide.  A     *)
(* built-in yields a set of outcomes: one outcome, except where the build   *)
(* profile decides (arithmetic overflow panics in a debug build and wraps   *)
(* in a release build).                                                     *)

\* width of the modelled machine integer
IntBits == 16
I64_MAX == 2 ^ (IntBits - 1) - 1
I64_MIN == 0 - 2 ^ (IntBits - 1)
InI64(n) == I64_MIN <= n /\ n <= I64_MAX
Wrap(n) == ((n - I64_MIN) % (2 ^ IntBits)) + I64_MIN

Panic(msg) == <<"Panic", msg>>
IsPanic(r) == r[1] = "Panic"

\* exprs_into_i64: the first argument that is no integer is the type error
RECURSIVE exprs_into_i64(_)
exprs_into_i64(args) ==
    IF Len(args) = 0 THEN Ok(<<>>)
    ELSE IF args[1][1] # "Integer"
         THEN Err(TypeError("integer", Display(args[1])))
         ELSE LET rest == exprs_into_i64(Tail(args))
              IN  IF IsErr(rest) THEN rest ELSE Ok(<<args[1][2]>> \o rest[2])

\* the binary operation of a fold: + for add, - for sub, * for mul
Arith(op, a, b) ==
    CASE op = "add" -> a + b
      [] op = "sub" -> a - b
      [] op = "mul" -> a * b

\* left fold of a binary operation, remembering whether a step overflowed
RECURSIVE FoldInts(_, _, _, _)
FoldInts(op, acc, ints, over) ==
    IF Len(ints) = 0 THEN [value |-> acc, over |-> over]
    ELSE LET nxt == Arith(op, acc, ints[1])
         IN  FoldInts(op, nxt, Tail(ints), over \/ ~InI64(nxt))

Checked(f) ==
    IF f.over THEN {Panic("arithmetic overflow"), Ok(Integer(Wrap(f.value)))}
    ELSE {Ok(Integer(f.value))}

\* add: ints.into_iter().sum()
add(args) ==
    LET ints == exprs_into_i64(args)
    IN  IF IsErr(ints) THEN {ints} ELSE Checked(FoldInts("add", 0, ints[2], FALSE))

\* a sub that subtracts every argument from 0
sub_from_zero(args) ==
    LET ints == exprs_into_i64(args)
    IN  IF IsErr(ints) THEN {ints} ELSE Checked(FoldInts("sub", 0, ints[2], FALSE))

\* sub: ints.into_iter().reduce(|first, x| first - x).unwrap_or(0)
sub(args) ==
    LET ints == exprs_into_i64(args)
    IN  IF IsErr(ints) THEN {ints}
        ELSE IF Len(ints[2]) = 0 THEN {Ok(Integer(0))}
        ELSE Checked(FoldInts("sub", ints[2][1], Tail(ints[2]), FALSE))

\* mul: ints.into_iter().product()
mul(args) ==
    LET ints == exprs_into_i64(args)
    IN  IF IsErr(ints) THEN {ints} ELSE Checked(FoldInts("mul", 1, ints[2], FALSE))

\* zero: int[0] == 0, indexing without a length test
zero(args) ==
    LET ints == exprs_into_i64(args)
    IN  IF IsErr(ints) THEN {ints}
        ELSE IF Len(ints[2]) = 0 THEN {Panic("index out of bounds")}
        ELSE {Ok(Boolean(ints[2][1] = 0))}

\* eq: all arguments equal the first; no argument gives false
eq(args) ==
    IF Len(args) = 0 THEN {Ok(Boolean(FALSE))}
    ELSE {Ok(Boolean(\A k \in 1..Len(args) : args[k] = args[1]))}

\* greater / less: exactly two integers
greater(args) ==
    LET ints == exprs_into_i64(args)
    IN  IF IsErr(ints) THEN {ints}
        ELSE IF Len(ints[2]) # 2
             THEN {Err(ArgumentError("greater?", 2, Len(ints[2])))}
             ELSE {Ok(Boolean(ints[2][1] > ints[2][2]))}

less(args) ==
    LET ints == exprs_into_i64(args)
    IN  IF IsErr(ints) THEN {ints}
        ELSE IF Len(ints[2]) # 2
             THEN {Err(ArgumentError("less?", 2, Len(ints[2])))}
             ELSE {Ok(Boolean(ints[2][1] < ints[2][2]))}

\* as_list: the arguments as a list value
as_list(args) == {Ok(List(args))}

\* i64 division and remainder: the quotient is truncated toward zero and the
\* remainder has the sign of the dividend
Abs(n) == IF n < 0 THEN 0 - n ELSE n
TruncDiv(a, b) ==
    IF (a < 0) = (b < 0) THEN Abs(a) \div Abs(b) ELSE 0 - (Abs(a) \div Abs(b))
TruncRem(a, b) == a - b * TruncDiv(a, b)

\* div: ints[0] / ints[1]; the operator panics on a zero divisor and on
\* i64::MIN / -1 in every build profile
div(args) ==
    LET ints == exprs_into_i64(args)
    IN  IF IsErr(ints) THEN {ints}
        ELSE IF Len(ints[2]) # 2
             THEN {Err(ArgumentError("div", 2, Len(ints[2])))}
        ELSE IF ints[2][2] = 0 THEN {Panic("attempt to divide by zero")}
        ELSE IF ints[2][1] = I64_MIN /\ ints[2][2] = -1
             THEN {Panic("attempt to divide with overflow")}
        ELSE {Ok(Integer(TruncDiv(ints[2][1], ints[2][2])))}

\* rem: ints[0] % ints[1], with the same panics
rem(args) ==
    LET ints == exprs_into_i64(args)
    IN  IF IsErr(ints) THEN {ints}
        ELSE IF Len(ints[2]) # 2
             THEN {Err(ArgumentError("rem", 2, Len(ints[2])))}
        ELSE IF ints[2][2] = 0
             THEN {Panic("attempt to calculate the remainder with a divisor of zero")}
        ELSE IF ints[2][1] = I64_MIN /\ ints[2][2] = -1
             THEN {Panic("attempt to calculate the remainder with overflow")}
        ELSE {Ok(Integer(TruncRem(ints[2][1], ints[2][2])))}

\* TryInto<String> over all arguments: the first argument that is no string
\* is the type error
RECURSIVE exprs_into_string(_)
exprs_into_string(args) ==
    IF Len(args) = 0 THEN Ok(<<>>)
    ELSE IF args[1][1] # "String"
         THEN Err(TypeError("string", Display(args[1])))
         ELSE LET rest == exprs_into_string(Tail(args))
              IN  IF IsErr(rest) THEN rest ELSE Ok(<<args[1][2]>> \o rest[2])

\* str::to_uppercase / str::to_lowercase on ASCII text
LowerChars == "abcdefghijklmnopqrstuvwxyz"
UpperChars == "ABCDEFGHIJKLMNOPQRSTUVWXYZ"
MapChar(c, from, to) ==
    IF \E k \in 1..Len(from) : SubSeq(from, k, k) = c
    THEN LET k == CHOOSE k \in 1..Len(from) : SubSeq(from, k, k) = c
         IN  SubSeq(to, k, k)
    ELSE c
RECURSIVE MapString(_, _, _)
MapString(s, from, to) ==
    IF Len(s) = 0 THEN ""
    ELSE MapChar(SubSeq(s, 1, 1), from, to)
         \o MapString(SubSeq(s, 2, Len(s)), from, to)

\* to_uppercase / to_lowercase: a list of strings for more than one argument,
\* otherwise args[0] is indexed without a length test
change_case(args, from, to) ==
    IF Len(args) > 1
    THEN LET strs == exprs_into_string(args)
         IN  IF IsErr(strs) THEN {strs}
             ELSE {Ok(List([k \in 1..Len(strs[2]) |->
                              String(MapString(strs[2][k], from, to))]))}
    ELSE IF Len(args) = 0 THEN {Panic("index out of bounds")}
    ELSE IF args[1][1] # "String"
         THEN {Err(TypeError("string", Display(args[1])))}
         ELSE {Ok(String(MapString(args[1][2], from, to)))}

to_uppercase(args) == change_case(args, LowerChars, UpperChars)
to_lowercase(args) == change_case(args, UpperChars, LowerChars)

\* concat: exprs.concat()
RECURSIVE ConcatAll(_)
ConcatAll(strs) ==
    IF Len(strs) = 0 THEN "" ELSE strs[1] \o ConcatAll(Tail(strs))

concat(args) ==
    LET strs == exprs_into_string(args)
    IN  IF IsErr(strs) THEN {strs} ELSE {Ok(String(ConcatAll(strs[2])))}

\* str::contains: pat occurs in s
StrContains(s, pat) ==
    \E k \in 1..(Len(s) + 1) :
        /\ k + Len(pat) - 1 <= Len(s)
        /\ SubSeq(s, k, k + Len(pat) - 1) = pat

\* contains: &exprs[1..] is taken before any length test, and the count in
\* the argument error is the constant 0
contains(args) ==
    LET strs == exprs_into_string(args)
    IN  IF IsErr(strs) THEN {strs}
        ELSE IF Len(strs[2]) = 0
             THEN {Panic("range start index 1 out of range for slice of length 0")}
        ELSE IF Len(strs[2]) = 1 THEN {Err(ArgumentError("contains", 2, 0))}
        ELSE {Ok(Boolean(\A k \in 2..Len(strs[2]) :
                            StrContains(strs[2][k], strs[2][1])))}

\* `idx as usize` is a valid position of a Vec of length n
InRange(idx, n) == 0 <= idx /\ idx < n

\* get: list[idx as usize], an index outside the list panics
get(args) ==
    IF Len(args) # 2 THEN {Err(ArgumentError("get", 2, Len(args)))}
    ELSE IF args[2][1] # "Integer"
         THEN {Err(TypeError("integer", Display(args[2])))}
    ELSE IF args[1][1] = "List"
         THEN IF InRange(args[2][2], Len(args[1][2]))
              THEN {Ok(args[1][2][args[2][2] + 1])}
              ELSE {Panic("index out of bounds")}
    ELSE {Err(TypeError("list", Display(args[1])))}

\* set: the length test lets exactly two arguments through, and args[2] is
\* then read from a slice of two
set(args) ==
    IF Len(args) # 2 THEN {Err(ArgumentError("set", 3, Len(args)))}
    ELSE IF args[2][1] # "Integer"
         THEN {Err(TypeError("integer", Display(args[2])))}
    ELSE IF args[1][1] = "List"
         THEN IF Len(args) < 3 \/ ~InRange(args[2][2], Len(args[1][2]))
              THEN {Panic("index out of bounds")}
              ELSE {Ok(List([args[1][2] EXCEPT ![args[2][2] + 1] = args[3]]))}
    ELSE {Err(TypeError("list", Display(args[1])))}

\* length: args[0] is matched without a length test; str.len() counts bytes
\* (the modelled strings are ASCII)
length(args) ==
    IF Len(args) = 0 THEN {Panic("index out of bounds")}
    ELSE CASE args[1][1] = "String" -> {Ok(Integer(Len(args[1][2])))}
           [] args[1][1] = "List"   -> {Ok(Integer(Len(args[1][2])))}
           [] OTHER -> {Err(TypeError("string or list", Display(args[1])))}

\* impl fmt::Debug for Expr, for the values that are no user function
RECURSIVE DebugForm(_)
RECURSIVE JoinDebug(_)
JoinDebug(l) ==
    IF Len(l) = 0 THEN ""
    ELSE IF Len(l) = 1 THEN DebugForm(l[1])
    ELSE DebugForm(l[1]) \o ", " \o JoinDebug(Tail(l))
DebugForm(v) ==
    CASE v[1] = "Integer" -> "Integer(" \o ToString(v[2]) \o ")"
      [] v[1] = "Boolean" -> "Boolean(" \o (IF v[2] THEN "true" ELSE "false") \o ")"
      [] v[1] = "String"  -> "String(" \o v[2] \o ")"
      [] v[1] = "List"    -> "List([" \o JoinDebug(v[2]) \o "])"
      [] v[1] = "CoreFunction" -> "Function(CoreFunction(name: " \o v[2] \o "))"

\* what dbg hands to add_output: format!("{:#?}\n", arg) for every argument
RECURSIVE DebugChunks(_)
DebugChunks(args) ==
    IF Len(args) = 0 THEN <<>>
    ELSE <<DebugForm(args[1]) \o "\n">> \o DebugChunks(Tail(args))

\* what print / println hand to add_output, one chunk per argument
RECURSIVE Chunks(_, _)
Chunks(args, suffix) ==
    IF Len(args) = 0 THEN <<>>
    ELSE <<Display(args[1]) \o suffix>> \o Chunks(Tail(args), suffix)

\* the pure built-ins, by the name they are registered under
PureNames ==
    {"add", "sub", "mul", "div", "rem", "zero?", "equal?", "greater?", "less?",
     "to_uppercase", "to_lowercase", "concat", "contains", "length", "as_list",
     "get", "set"}

pure_function(name, args) ==
    CASE name = "add"      -> add(args)
      [] name = "sub"      -> sub(args)
      [] name = "mul"      -> mul(args)
      [] name = "zero?"    -> zero(args)
      [] name = "equal?"   -> eq(args)
      [] name = "greater?" -> greater(args)
      [] name = "less?"    -> less(args)
      [] name = "as_list"  -> as_list(args)
      [] name = "div"      -> div(args)
      [] name = "rem"      -> rem(args)
      [] name = "to_uppercase" -> to_uppercase(args)
      [] name = "to_lowercase" -> to_lowercase(args)
      [] name = "concat"   -> concat(args)
      [] name = "contains" -> contains(args)
      [] name = "length"   -> length(args)
      [] name = "get"      -> get(args)
      [] name = "set"      -> set(args)

\* print / println: the chunks go to Environment.output when store_output is
\* set and to standard output otherwise; println always ends with println!()
print(args, store) ==
    [result |-> Ok(Boolean(TRUE)),
     output |-> IF store THEN Chunks(args, "") ELSE <<>>,
     stdout |-> IF store THEN <<>> ELSE Chunks(args, "")]

println(args, store) ==
    [result |-> Ok(Boolean(TRUE)),
     output |-> IF store THEN Chunks(args, "\n") ELSE <<>>,
     stdout |-> (IF store THEN <<>> ELSE Chunks(args, "")) \o <<"\n">>]

\* dbg: the debug chunks go to Environment.output when store_output is set;
\* otherwise dbg!(arg) writes to standard error, which is not part of the state
dbg(args, store) ==
    [result |-> Ok(Boolean(TRUE)),
     output |-> IF store THEN DebugChunks(args) ELSE <<>>,
     stdout |-> <<>>]

\* a call of the built-in registered under name: the set of its outcomes,
\* each with the chunks it appends to the captured output and to stdout
core_function(name, args, store) ==
    CASE name = "print"   -> {print(args, store)}
      [] name = "println" -> {println(args, store)}
      [] name = "dbg"     -> {dbg(args, store)}
      [] name \in PureNames ->
            {[result |-> r, output |-> <<>>, stdout |-> <<>>] :
                r \in pure_function(name, args)}

-----------------------------------------------------------------------------
(* The evaluator.  ctl = <<"eval", v>> is a call Expr::eval(v, interpreter) *)
(* about to run; ctl = <<"ret", r>> is the Result r being returned to the   *)
(* innermost pending call, Head(stack).  Pending calls:                     *)
(*   <<"eval_array", items, acc>>        Expr::eval on a JSON array          *)
(*   <<"interpret_block", old_local, heap0, assigns0>>                      *)
(*   <<"interpret_block_with_bindings", old_local>>                         *)
(*   <<"function_application">>          waiting for head and arguments      *)
(*   <<"function_application_call", current_local>>  waiting for the body    *)
(*   <<"cond", clauses, idx>>            waiting for the condition idx       *)
(*   <<"interpret_let", name>>, <<"interpret_def", name>>,                   *)
(*   <<"interpret_assignment", name>>    waiting for the right-hand side     *)
(* heap0 and assigns0 in a block's record are history: the heap and the     *)
(* number of assignments made when the block was entered.                   *)

Evaluating(tag) == ctl[1] = "eval" /\ ctl[2][1] = tag
Returning(fn)   == ctl[1] = "ret" /\ Len(stack) > 0 /\ Head(stack)[1] = fn
Push(rec)       == <<rec>> \o stack
ReplaceTop(rec) == <<rec>> \o Tail(stack)

\* a conversion that wraps a number outside i64 around
as_i64_wrapping(num) == <<"Some", Wrap(num)>>

\* Number::as_i64
as_i64(num) == IF InI64(num) THEN <<"Some", num>> ELSE <<"None">>

\* Expr::eval, Value::Number
EvalNumber ==
    /\ Evaluating("Number")
    /\ ctl' = <<"ret", IF as_i64(ctl[2][2])[1] = "Some"
                       THEN Ok(Integer(as_i64(ctl[2][2])[2]))
                       ELSE Err(TypeError("i64", ToString(ctl[2][2])))>>
    /\ evals' = Append(evals, ctl[2])
    /\ last' = <<"EvalNumber", ctl[2][2]>>
    /\ UNCHANGED <<parser_vars, lexer_vars, program, lexical_scope, store_output, output, stdout, heap,
                   local, stack, assigns>>

\* Expr::eval, Value::String
EvalString ==
    /\ Evaluating("String")
    /\ ctl' = <<"ret", Ok(String(ctl[2][2]))>>
    /\ evals' = Append(evals, ctl[2])
    /\ last' = <<"EvalString">>
    /\ UNCHANGED <<parser_vars, lexer_vars, program, lexical_scope, store_output, output, stdout, heap,
                   local, stack, assigns>>

\* a visit of the elements from the last to the first
next_element_reverse(items, done) == Len(items) - done

\* the order in which Expr::eval visits the elements of an array: the index
\* of the element evaluated when done elements have been evaluated
next_element(items, done) == done + 1

\* Expr::eval, Value::Array: the elements are evaluated one after another
EvalArray ==
    /\ Evaluating("Array")
    /\ LET items == ctl[2][2]
       IN  IF Len(items) = 0
           THEN /\ ctl' = <<"ret", Ok(List(<<>>))>>
                /\ stack' = stack
           ELSE /\ ctl' = <<"eval", items[next_element(items, 0)]>>
                /\ stack' = Push(<<"eval_array", items, <<>>>>)
    /\ evals' = Append(evals, ctl[2])
    /\ last' = <<"EvalArray">>
    /\ UNCHANGED <<parser_vars, lexer_vars, program, lexical_scope, store_output, output, stdout, heap,
                   local, assigns>>

\* Expr::eval, Value::Array: an element has been evaluated; the first error
\* ends the iteration (collect into Result)
EvalArrayNext ==
    /\ Returning("eval_array")
    /\ LET items == Head(stack)[2]
           acc   == Head(stack)[3]
           r     == ctl[2]
       IN  IF IsErr(r)
           THEN /\ ctl' = ctl
                /\ stack' = Tail(stack)
           ELSE IF Len(acc) + 1 = Len(items)
           THEN /\ ctl' = <<"ret", Ok(List(Append(acc, r[2])))>>
                /\ stack' = Tail(stack)
           ELSE /\ ctl' = <<"eval", items[next_element(items, Len(acc) + 1)]>>
                /\ stack' = ReplaceTop(<<"eval_array", items, Append(acc, r[2])>>)
    /\ last' = <<"EvalArrayNext">>
    /\ UNCHANGED <<parser_vars, lexer_vars, program, lexical_scope, store_output, output, stdout, heap,
                   local, evals, assigns>>

\* interpret_object, "Identifier": lookup from the current frame
EvalIdentifier ==
    /\ Evaluating("Identifier")
    /\ LET found == lookup(heap, local, ctl[2][2])
       IN  ctl' = <<"ret", IF found[1] = "Some" THEN Ok(found[2])
                           ELSE Err(UndefinedError(ctl[2][2]))>>
    /\ evals' = Append(evals, ctl[2])
    /\ last' = <<"EvalIdentifier">>
    /\ UNCHANGED <<parser_vars, lexer_vars, program, lexical_scope, store_output, output, stdout, heap,
                   local, stack, assigns>>

\* interpret_block, up to the evaluation of the block's array
interpret_block ==
    /\ Evaluating("Block")
    /\ Len(heap) < MaxFrames
    /\ LET e == enter_new_local(heap, local)
       IN  /\ heap' = e.heap
           /\ local' = e.local
           /\ stack' = Push(<<"interpret_block", e.old_local, heap, Len(assigns)>>)
    /\ ctl' = <<"eval", ctl[2][2]>>
    /\ evals' = Append(evals, ctl[2])
    /\ last' = <<"EvalBlock">>
    /\ UNCHANGED <<parser_vars, lexer_vars, program, lexical_scope, store_output, output, stdout, assigns>>

\* the value of a block from the evaluated array: the last element, false
\* for an empty block, a parse error for anything but a list
block_result(r) ==
    IF r[2][1] = "List"
    THEN Ok(IF Len(r[2][2]) = 0 THEN Boolean(FALSE) ELSE r[2][2][Len(r[2][2])])
    ELSE Err(ParseError("Expected expressions within block."))

\* an exit that never puts the saved handle back
block_exit_local_keep(r, cur, old_local) == cur

\* the frame that is current once interpret_block or
\* interpret_block_with_bindings has returned: an error of the array leaves
\* through `?` before the saved handle is put back
block_exit_local(r, cur, old_local) == IF IsErr(r) THEN cur ELSE old_local

\* interpret_block, from the result of the block's array to its return
interpret_block_return ==
    /\ Returning("interpret_block")
    /\ LET r == ctl[2]
           old_local == Head(stack)[2]
       IN  /\ ctl' = <<"ret", IF IsErr(r) THEN r ELSE block_result(r)>>
           /\ local' = block_exit_local(r, local, old_local)
           /\ last' = <<"interpret_block", old_local, IsOk(r), Head(stack)[3],
                        Head(stack)[4]>>
    /\ stack' = Tail(stack)
    /\ UNCHANGED <<parser_vars, lexer_vars, program, lexical_scope, store_output, output, stdout, heap,
                   evals, assigns>>

\* a capture that copies the current frame instead of sharing it
capture_env_copy(h, l) ==
    [heap |-> h \o <<h[l], [variables |-> NoVars, parent |-> Len(h) + 1]>>,
     env |-> Len(h) + 2]

\* the frame a lambda captures: parse_anonymous_function allocates a fresh
\* child of the current frame; the parent link shares the current frame
capture_env(h, l) == [heap |-> from_parent(h, l), env |-> Len(h) + 1]

\* parse_anonymous_function (always called with name None)
parse_anonymous_function ==
    /\ Evaluating("Lambda")
    /\ Len(heap) < MaxFrames
    /\ LET c == capture_env(heap, local)
       IN  /\ heap' = c.heap
           /\ ctl' = <<"ret", Ok(Function("Anonymous", ctl[2][2], ctl[2][3], c.env))>>
    /\ evals' = Append(evals, ctl[2])
    /\ last' = <<"parse_anonymous_function">>
    /\ UNCHANGED <<parser_vars, lexer_vars, program, lexical_scope, store_output, output, stdout, local,
                   stack, assigns>>

\* function_application, up to the evaluation of head and arguments; the
\* record keeps, as history, the place of the application in evals
function_application ==
    /\ Evaluating("Application")
    /\ ctl' = <<"eval", ctl[2][2]>>
    /\ stack' = Push(<<"function_application", Len(evals) + 1>>)
    /\ evals' = Append(evals, ctl[2])
    /\ last' = <<"EvalApplication">>
    /\ UNCHANGED <<parser_vars, lexer_vars, program, lexical_scope, store_output, output, stdout, heap,
                   local, assigns>>

\* an arity error whose two counts are exchanged
application_error_swapped(r) ==
    IF IsErr(r) THEN <<"Some", r[2]>>
    ELSE IF r[2][1] # "List" THEN <<"Some", ParseError("Expected function and arguments.")>>
    ELSE IF Len(r[2][2]) = 0 THEN <<"Some", ParseError("Function application on nothing.")>>
    ELSE LET first == r[2][2][1]
             rest  == Tail(r[2][2])
         IN  IF ~IsFunctionValue(first)
             THEN <<"Some", TypeError("function", Display(first))>>
             ELSE IF first[1] = "Function" /\ Len(first[3]) # Len(rest)
             THEN <<"Some", ArgumentError(first[2], Len(rest), Len(first[3]))>>
             ELSE <<"None">>

\* the error with which function_application ends before any call is made,
\* <<"None">> when a call is made
application_error(r) ==
    IF IsErr(r) THEN <<"Some", r[2]>>
    ELSE IF r[2][1] # "List" THEN <<"Some", ParseError("Expected function and arguments.")>>
    ELSE IF Len(r[2][2]) = 0 THEN <<"Some", ParseError("Function application on nothing.")>>
    ELSE LET first == r[2][2][1]
             rest  == Tail(r[2][2])
         IN  IF ~IsFunctionValue(first)
             THEN <<"Some", TypeError("function", Display(first))>>
             ELSE IF first[1] = "Function" /\ Len(first[3]) # Len(rest)
             THEN <<"Some", ArgumentError(first[2], Len(first[3]), Len(rest))>>
             ELSE <<"None">>

\* function_application: head and arguments are evaluated and no call is made
function_application_error ==
    /\ Returning("function_application")
    /\ application_error(ctl[2])[1] = "Some"
    /\ ctl' = <<"ret", Err(application_error(ctl[2])[2])>>
    /\ stack' = Tail(stack)
    /\ last' = <<"function_application_error", ctl[2], Head(stack)[2]>>
    /\ UNCHANGED <<parser_vars, lexer_vars, program, lexical_scope, store_output, output, stdout, heap,
                   local, evals, assigns>>

\* function_application, Function::CoreFunction: func(rest, &mut global)
function_application_core ==
    /\ Returning("function_application")
    /\ application_error(ctl[2])[1] = "None"
    /\ ctl[2][2][2][1][1] = "CoreFunction"
    /\ \E o \in core_function(ctl[2][2][2][1][2], Tail(ctl[2][2][2]), store_output) :
          /\ ctl' = IF IsPanic(o.result) THEN <<"abort", o.result[2]>>
                    ELSE <<"ret", o.result>>
          /\ output' = output \o o.output
          /\ stdout' = stdout \o o.stdout
    /\ stack' = Tail(stack)
    /\ last' = <<"function_application_core", ctl[2][2][2][1][2],
                 Tail(ctl[2][2][2]), output, stdout>>
    /\ UNCHANGED <<parser_vars, lexer_vars, program, lexical_scope, store_output, heap, local, evals,
                   assigns>>

\* a call whose frame hangs below the caller's frame under lexical scope and
\* below the captured frame otherwise
call_parent_swapped(lexical, env, cur) == IF lexical THEN cur ELSE env

\* the parent of the frame in which a user function's parameters are bound:
\* the captured frame under lexical scope, the caller's frame otherwise
call_parent(lexical, env, cur) == IF lexical THEN env ELSE cur

\* pairs of parameter and argument, args.into_iter().zip(rest)
zip(args, rest) == [k \in 1..Len(args) |-> <<args[k], rest[k]>>]

\* function_application, Function::Function with matching counts, up to the
\* evaluation of the body: enter_local under lexical scope, then
\* interpret_block_with_bindings up to the evaluation of the body's array
function_application_user ==
    /\ Returning("function_application")
    /\ application_error(ctl[2])[1] = "None"
    /\ ctl[2][2][2][1][1] = "Function"
    /\ Len(heap) < MaxFrames
    /\ LET func == ctl[2][2][2][1]
           rest == Tail(ctl[2][2][2])
           e    == enter_new_local(heap, call_parent(lexical_scope, func[5], local))
       IN  /\ heap' = bind(e.heap, e.local, zip(func[3], rest))
           /\ local' = e.local
           /\ stack' = <<<<"interpret_block_with_bindings", e.old_local>>,
                         <<"function_application_call", local>>>> \o Tail(stack)
           /\ ctl' = <<"eval", func[4]>>
    /\ last' = <<"function_application_user", ctl[2][2][2][1],
                 Tail(ctl[2][2][2]), heap, local>>
    /\ UNCHANGED <<parser_vars, lexer_vars, program, lexical_scope, store_output, output, stdout, evals,
                   assigns>>

\* interpret_block_with_bindings, from the result of the body to its return
interpret_block_with_bindings_return ==
    /\ Returning("interpret_block_with_bindings")
    /\ LET r == ctl[2]
           old_local == Head(stack)[2]
       IN  /\ ctl' = <<"ret", IF IsErr(r) THEN r ELSE block_result(r)>>
           /\ local' = block_exit_local(r, local, old_local)
           /\ last' = <<"interpret_block_with_bindings", old_local, IsOk(r)>>
    /\ stack' = Tail(stack)
    /\ UNCHANGED <<parser_vars, lexer_vars, program, lexical_scope, store_output, output, stdout, heap,
                   evals, assigns>>

\* the frame that is current once a user function call has returned: under
\* lexical scope the handle saved by enter_local is put back on every path,
\* under dynamic scope the result of interpret_block_with_bindings is
\* returned as it is
call_exit_local(lexical, cur, current_local) ==
    IF lexical THEN current_local ELSE cur

\* function_application, Function::Function: the return after the body
function_application_return ==
    /\ Returning("function_application_call")
    /\ local' = call_exit_local(lexical_scope, local, Head(stack)[2])
    /\ stack' = Tail(stack)
    /\ last' = <<"function_application", Head(stack)[2], IsOk(ctl[2])>>
    /\ UNCHANGED <<parser_vars, lexer_vars, program, lexical_scope, store_output, output, stdout, heap,
                   ctl, evals, assigns>>

\* interpret_object, "Cond": the first condition is evaluated, no clause
\* gives false
EvalCond ==
    /\ Evaluating("Cond")
    /\ LET clauses == ctl[2][2]
       IN  IF Len(clauses) = 0
           THEN /\ ctl' = <<"ret", Ok(Boolean(FALSE))>>
                /\ stack' = stack
           ELSE /\ ctl' = <<"eval", clauses[1][1]>>
                /\ stack' = Push(<<"cond", clauses, 1>>)
    /\ evals' = Append(evals, ctl[2])
    /\ last' = <<"EvalCond">>
    /\ UNCHANGED <<parser_vars, lexer_vars, program, lexical_scope, store_output, output, stdout, heap,
                   local, assigns>>

\* a selection that takes every value but true for false
cond_select_lenient(condition) ==
    IF condition = Boolean(TRUE) THEN "result" ELSE "next"

\* what the loop over the clauses does with the value of condition idx:
\* "result" evaluates the clause's expression and returns it, "next" goes on
\* with the following clause, "type_error" ends the cond
cond_select(condition) ==
    IF condition[1] = "Boolean"
    THEN (IF condition[2] THEN "result" ELSE "next")
    ELSE "type_error"

\* interpret_object, "Cond": a condition has been evaluated
EvalCondNext ==
    /\ Returning("cond")
    /\ LET clauses == Head(stack)[2]
           idx     == Head(stack)[3]
           r       == ctl[2]
       IN  IF IsErr(r)
           THEN /\ ctl' = ctl
                /\ stack' = Tail(stack)
           ELSE IF cond_select(r[2]) = "result"
           THEN /\ ctl' = <<"eval", clauses[idx][2]>>
                /\ stack' = Tail(stack)
           ELSE IF cond_select(r[2]) = "type_error"
           THEN /\ ctl' = <<"ret", Err(TypeError("bool", Display(r[2])))>>
                /\ stack' = Tail(stack)
           ELSE IF idx < Len(clauses)
           THEN /\ ctl' = <<"eval", clauses[idx + 1][1]>>
                /\ stack' = ReplaceTop(<<"cond", clauses, idx + 1>>)
           ELSE /\ ctl' = <<"ret", Ok(Boolean(FALSE))>>
                /\ stack' = Tail(stack)
    /\ last' = <<"EvalCondNext">>
    /\ UNCHANGED <<parser_vars, lexer_vars, program, lexical_scope, store_output, output, stdout, heap,
                   local, evals, assigns>>

\* interpret_let, up to the evaluation of the right-hand side
EvalLet ==
    /\ Evaluating("Let")
    /\ stack' = Push(<<"interpret_let", ctl[2][2]>>)
    /\ ctl' = <<"eval", ctl[2][3]>>
    /\ evals' = Append(evals, ctl[2])
    /\ last' = <<"EvalLet">>
    /\ UNCHANGED <<parser_vars, lexer_vars, program, lexical_scope, store_output, output, stdout, heap,
                   local, assigns>>

\* interpret_def, up to the evaluation of the right-hand side
EvalDef ==
    /\ Evaluating("Def")
    /\ stack' = Push(<<"interpret_def", ctl[2][2]>>)
    /\ ctl' = <<"eval", ctl[2][3]>>
    /\ evals' = Append(evals, ctl[2])
    /\ last' = <<"EvalDef">>
    /\ UNCHANGED <<parser_vars, lexer_vars, program, lexical_scope, store_output, output, stdout, heap,
                   local, assigns>>

\* interpret_assignment, up to the evaluation of the right-hand side
EvalAssignment ==
    /\ Evaluating("Assignment")
    /\ stack' = Push(<<"interpret_assignment", ctl[2][2]>>)
    /\ ctl' = <<"eval", ctl[2][3]>>
    /\ evals' = Append(evals, ctl[2])
    /\ last' = <<"EvalAssignment">>
    /\ UNCHANGED <<parser_vars, lexer_vars, program, lexical_scope, store_output, output, stdout, heap,
                   local, assigns>>

\* interpret_let: the value is bound in a new child frame, which stays current
let_bind(h, l, name, val) ==
    LET e == enter_new_local(h, l)
    IN  [heap |-> bind(e.heap, e.local, <<<<name, val>>>>), local |-> e.local]

\* interpret_def: the value is bound in the current frame
def_bind(h, l, name, val) ==
    [heap |-> bind(h, l, <<<<name, val>>>>), local |-> l]

\* interpret_let, from the value of the right-hand side to its return
interpret_let ==
    /\ Returning("interpret_let")
    /\ IsOk(ctl[2]) => Len(heap) < MaxFrames
    /\ LET b == let_bind(heap, local, Head(stack)[2], ctl[2][2])
       IN  IF IsErr(ctl[2])
           THEN UNCHANGED <<heap, local>>
           ELSE heap' = b.heap /\ local' = b.local
    /\ stack' = Tail(stack)
    /\ last' = <<"interpret_let", Head(stack)[2], IsOk(ctl[2]), heap, local>>
    /\ UNCHANGED <<parser_vars, lexer_vars, program, lexical_scope, store_output, output, stdout, ctl,
                   evals, assigns>>

\* interpret_def, from the value of the right-hand side to its return
interpret_def ==
    /\ Returning("interpret_def")
    /\ LET b == def_bind(heap, local, Head(stack)[2], ctl[2][2])
       IN  IF IsErr(ctl[2])
           THEN UNCHANGED <<heap, local>>
           ELSE heap' = b.heap /\ local' = b.local
    /\ stack' = Tail(stack)
    /\ last' = <<"interpret_def", Head(stack)[2], IsOk(ctl[2]), heap, local>>
    /\ UNCHANGED <<parser_vars, lexer_vars, program, lexical_scope, store_output, output, stdout, ctl,
                   evals, assigns>>

\* interpret_assignment, from the value of the right-hand side to its return;
\* last keeps the heap the assignment found
interpret_assignment ==
    /\ Returning("interpret_assignment")
    /\ LET name == Head(stack)[2]
           a    == assignment(heap, local, name, ctl[2][2])
       IN  IF IsErr(ctl[2])
           THEN /\ UNCHANGED <<heap, ctl, assigns>>
                /\ last' = <<"interpret_assignment", name, FALSE>>
           ELSE /\ heap' = a.heap
                /\ ctl' = <<"ret", a.result>>
                /\ assigns' = IF IsOk(a.result) THEN Append(assigns, name)
                              ELSE assigns
                /\ last' = <<"interpret_assignment", name, TRUE, ctl[2][2], heap>>
    /\ stack' = Tail(stack)
    /\ UNCHANGED <<parser_vars, lexer_vars, program, lexical_scope, store_output, output, stdout, local,
                   evals>>

-----------------------------------------------------------------------------
(* The programs that are run.                                              *)

SeqsUpTo(S, n) == UNION {[1..k -> S] : k \in 1..n}

\* { def x 1; def f λ() { x }; def x 2; f() }
ClosureProgram ==
    Block(<<Def("x", Num(1)), Def("f", Lambda(<<>>, <<Id("x")>>)),
            Def("x", Num(2)), App(<<Id("f")>>)>>)

\* { { let x 5 }; x }
InnerLetProgram == Block(<<Block(<<Let("x", Num(5))>>), Id("x")>>)

\* { let x 1; { let x 2 }; x }
ShadowLetProgram ==
    Block(<<Let("x", Num(1)), Block(<<Let("x", Num(2))>>), Id("x")>>)

\* λ(n) { cond (zero?(n) => 1) (true => mul(n, fact(sub(n, 1)))) }
FactLambda ==
    Lambda(<<"n">>,
      <<Cond(<<Clause(App(<<Id("zero?"), Id("n")>>), Num(1)),
               Clause(Id("true"),
                      App(<<Id("mul"), Id("n"),
                            App(<<Id("fact"),
                                  App(<<Id("sub"), Id("n"), Num(1)>>)>>)>>))>>)>>)

\* { def fact λ(n) {...}; fact(5) }
FactProgram == Block(<<Def("fact", FactLambda), App(<<Id("fact"), Num(5)>>)>>)

\* λ(n) { cond (zero?(n) => base) (true => other(sub(n, 1))) }
ParityLambda(base, other) ==
    Lambda(<<"n">>,
      <<Cond(<<Clause(App(<<Id("zero?"), Id("n")>>), Id(base)),
               Clause(Id("true"),
                      App(<<Id(other),
                            App(<<Id("sub"), Id("n"), Num(1)>>)>>))>>)>>)

\* { def even ..odd..; def odd ..even..; even(3) }
ParityProgram ==
    Block(<<Def("even", ParityLambda("true", "odd")),
            Def("odd", ParityLambda("false", "even")),
            App(<<Id("even"), Num(3)>>)>>)

\* { def even ..odd..; let a 1; def odd ..even..; even(3) }
ParityLetProgram ==
    Block(<<Def("even", ParityLambda("true", "odd")),
            Let("a", Num(1)),
            Def("odd", ParityLambda("false", "even")),
            App(<<Id("even"), Num(3)>>)>>)

\* { let c 0; def inc λ() { c = add(c, 1) }; def read λ() { c }; inc(); inc();
\*   as_list(read(), c) }
CounterProgram ==
    Block(<<Let("c", Num(0)),
            Def("inc", Lambda(<<>>, <<Assign("c", App(<<Id("add"), Id("c"), Num(1)>>))>>)),
            Def("read", Lambda(<<>>, <<Id("c")>>)),
            App(<<Id("inc")>>), App(<<Id("inc")>>),
            App(<<Id("as_list"), App(<<Id("read")>>), Id("c")>>)>>)

\* { def read λ() { c }; def c 1; c = 2; read() }
LateDefProgram ==
    Block(<<Def("read", Lambda(<<>>, <<Id("c")>>)),
            Def("c", Num(1)), Assign("c", Num(2)), App(<<Id("read")>>)>>)

\* cond ({ print("a"); false } => print("b")) (print("c") => print("d"))
\*      (print("e") => print("f"))
CondPrintProgram ==
    Cond(<<Clause(Block(<<App(<<Id("print"), Str("a")>>), Id("false")>>),
                  App(<<Id("print"), Str("b")>>)),
           Clause(App(<<Id("print"), Str("c")>>), App(<<Id("print"), Str("d")>>)),
           Clause(App(<<Id("print"), Str("e")>>), App(<<Id("print"), Str("f")>>))>>)

\* { let x 1; def f λ() { x }; { let x 2; f() } }
ScopeProgram ==
    Block(<<Let("x", Num(1)), Def("f", Lambda(<<>>, <<Id("x")>>)),
            Block(<<Let("x", Num(2)), App(<<Id("f")>>)>>)>>)

\* { def f λ() { q }; { let q 1; f() } }
CallerOnlyProgram ==
    Block(<<Def("f", Lambda(<<>>, <<Id("q")>>)),
            Block(<<Let("q", Num(1)), App(<<Id("f")>>)>>)>>)

\* { def f λ(x) { x }; f(1) }
ShadowParamProgram ==
    Block(<<Def("f", Lambda(<<"x">>, <<Id("x")>>)), App(<<Id("f"), Num(1)>>)>>)

\* { def f λ(n) { cond (zero?(n) => 0) (true => add(f(sub(n, 1)), n)) }; f(3) }
SumProgram ==
    Block(<<Def("f",
              Lambda(<<"n">>,
                <<Cond(<<Clause(App(<<Id("zero?"), Id("n")>>), Num(0)),
                         Clause(Id("true"),
                                App(<<Id("add"),
                                      App(<<Id("f"),
                                            App(<<Id("sub"), Id("n"), Num(1)>>)>>),
                                      Id("n")>>))>>)>>)),
            App(<<Id("f"), Num(3)>>)>>)

\* 1(print("a")), x(x = 1) and "s"(v = 2, println("b")): the head is no
\* function
NumberHeadProgram == App(<<Num(1), App(<<Id("print"), Str("a")>>)>>)
IdentifierHeadProgram == App(<<Id("x"), Assign("x", Num(1))>>)
StringHeadProgram ==
    App(<<Str("s"), Assign("v", Num(2)), App(<<Id("println"), Str("b")>>)>>)

FixedPrograms ==
    {NumberHeadProgram, IdentifierHeadProgram, StringHeadProgram, ScopeProgram, ClosureProgram, InnerLetProgram, ShadowLetProgram, FactProgram,
     ParityProgram, ParityLetProgram, CounterProgram, LateDefProgram,
     CondPrintProgram, CallerOnlyProgram, ShadowParamProgram, SumProgram,
     Cond(<<>>), Block(<<>>), Arr(<<>>)}

\* expressions of the generated blocks and function bodies: values, a failing
\* lookup, let, def, assignment to a defined and to an undefined name, and
\* inner blocks that bind, assign or fail
Pool ==
    {Id("x"), Id("y"), Let("x", Num(1)), Def("v", Num(2)),
     Assign("x", Num(3)), Assign("q", Num(4)),
     Block(<<Let("x", Num(5)), Def("v", Num(6))>>),
     Block(<<Assign("x", Num(7))>>), Block(<<Id("y")>>)}

BlockPrograms == {Block(items) : items \in SeqsUpTo(Pool, MaxBlockLen)}

\* parameters of the generated calls
MaxParams == 2

\* names of parameters and argument expressions of the generated calls
ParamNames == <<"p", "r", "s", "t">>
ArgExprs   == <<Num(1), Id("x"), Num(2), Id("v")>>

\* bodies of the generated calls
Bodies ==
    {<<Id("p")>>, <<Id("y")>>, <<Let("p", Num(8)), Id("p")>>,
     <<App(<<Id("print"), Str("body")>>), Assign("x", Num(9))>>}

\* { let p 0; (λ(params) { body })(args); p } with all counts of parameters
\* and arguments
CallPrograms ==
    {Block(<<Let("p", Num(0)),
             App(<<Lambda(SubSeq(ParamNames, 1, np), body)>>
                 \o SubSeq(ArgExprs, 1, na)),
             Id("p")>>) :
        np \in 0..MaxParams, na \in 0..MaxParams, body \in Bodies}

\* { def f λ(params) { body }; f(args) }
NamedCallPrograms ==
    {Block(<<Def("f", Lambda(SubSeq(ParamNames, 1, np), body)),
             App(<<Id("f")>> \o SubSeq(ArgExprs, 1, na))>>) :
        np \in 0..MaxParams, na \in 0..MaxParams, body \in Bodies}

\* conditions of the generated conds: true, false, an integer
Conditions == {Id("true"), Id("false"), Id("x")}

\* cond (c1 => 101) (c2 => 102) ...
CondOf(cs) == Cond([k \in 1..Len(cs) |-> Clause(cs[k], Num(100 + k))])
CondPrograms == {CondOf(cs) : cs \in SeqsUpTo(Conditions, MaxClauses)}

\* expressions with an effect, for the order of evaluation
Effects ==
    {App(<<Id("print"), Str("a")>>), App(<<Id("println"), Str("b")>>),
     Assign("x", Num(1)), Assign("v", Num(2)),
     Block(<<App(<<Id("print"), Str("c")>>), Assign("i", Num(3))>>)}

MaxArgs == 3

OrderPrograms ==
    {App(<<Id("as_list")>> \o args) : args \in SeqsUpTo(Effects, MaxArgs)}
    \cup {Block(items) : items \in SeqsUpTo(Effects, MaxArgs)}

\* sequences over S of length 0..n
SeqsFromZero(S, n) == {<<>>} \cup SeqsUpTo(S, n)

\* name(args) for every name and every argument list of up to MaxArgs
CallsOf(names, args) ==
    {App(<<Id(name)>> \o as) : name \in names, as \in SeqsFromZero(args, MaxArgs)}

\* as_list(7, 8)
ListExpr == App(<<Id("as_list"), Num(7), Num(8)>>)

\* calls of the integer built-ins: integers, among them 0, and a string
IntBuiltins == {"add", "sub", "mul", "div", "rem", "zero?", "greater?", "less?"}
IntArgs == {Num(0), Num(3), Num(-2), Str("s")}

\* calls of the string built-ins
StringBuiltins == {"to_uppercase", "to_lowercase", "concat", "contains", "length"}
StringArgs == {Str("ab"), Str("B"), Num(1)}

\* calls of the list built-ins: a list of two, indices in and out of range
ListBuiltins == {"get", "set", "length"}
ListArgs == {ListExpr, Num(0), Num(1), Num(2), Num(-1)}

\* calls of the output built-ins, once after print("z") has written a chunk
OutputBuiltins == {"print", "println", "dbg"}
OutputArgs == {Num(1), Str("a"), Id("true"), ListExpr, Id("add")}
OutputPrograms ==
    CallsOf(OutputBuiltins, OutputArgs)
    \cup {Block(<<App(<<Id("print"), Str("z")>>), c>>) :
             c \in CallsOf(OutputBuiltins, {Num(1), Str("a")})}

\* print of one value of every kind: as_list(), as_list(7, 8),
\* as_list(1, as_list(7, 8)), as_list("a", true), a user function
DisplayArgs ==
    {Num(-12), Id("true"), Id("false"), Str("a b"), Id("add"),
     Lambda(<<>>, <<Num(1)>>), App(<<Id("as_list")>>), ListExpr,
     App(<<Id("as_list"), Num(1), ListExpr>>),
     App(<<Id("as_list"), Str("a"), Id("true")>>)}
DisplayPrograms == {App(<<Id("print"), a>>) : a \in DisplayArgs}

\* add(1, add(2, add(3, add(4, 5))))
NestedAddProgram ==
    App(<<Id("add"), Num(1),
          App(<<Id("add"), Num(2),
                App(<<Id("add"), Num(3),
                      App(<<Id("add"), Num(4), Num(5)>>)>>)>>)>>)

\* sub(0, 1)
SubProgram == App(<<Id("sub"), Num(0), Num(1)>>)

\* mul(sub(7, 2), add(1, 1))
NestedMulProgram ==
    App(<<Id("mul"), App(<<Id("sub"), Num(7), Num(2)>>),
          App(<<Id("add"), Num(1), Num(1)>>)>>)

BuiltinPrograms ==
    CallsOf(IntBuiltins, IntArgs) \cup CallsOf(StringBuiltins, StringArgs)
    \cup CallsOf(ListBuiltins, ListArgs) \cup OutputPrograms
    \cup DisplayPrograms
    \cup {NestedAddProgram, SubProgram, NestedMulProgram}

\* numeric literals at and beyond both ends of i64 (tests parse_valid_integer
\* and parse_invalid_integer), alone and as the right-hand side of a let, a
\* def and an assignment
InRangeLiterals == {12, -500, I64_MAX, I64_MIN}
OutOfRangeLiterals == {I64_MAX + 1, I64_MAX + 10, I64_MIN - 1, I64_MIN - 10}
LiteralUses(n) ==
    {Num(n), Block(<<Let("y", Num(n)), Id("y")>>),
     Block(<<Def("y", Num(n)), Id("y")>>),
     Block(<<Assign("x", Num(n)), Id("x")>>)}
NumberPrograms ==
    UNION {LiteralUses(n) : n \in InRangeLiterals \cup OutOfRangeLiterals}

Programs ==
    FixedPrograms \cup BlockPrograms \cup CallPrograms \cup NamedCallPrograms
    \cup CondPrograms \cup OrderPrograms \cup BuiltinPrograms
    \cup NumberPrograms

-----------------------------------------------------------------------------
(* Interpreter::new and interpret_default: the default frame is current     *)
(* and the program is about to be evaluated.                                *)

Init ==
    /\ program \in Programs
    /\ lexical_scope \in BOOLEAN
    /\ store_output \in BOOLEAN
    /\ output = <<>>
    /\ stdout = <<>>
    /\ heap = <<default_environment>>
    /\ local = 1
    /\ ctl = <<"eval", program>>
    /\ stack = <<>>
    /\ evals = <<>>
    /\ assigns = <<>>
    /\ last = <<"new">>
    /\ source = <<>>
    /\ input = 0
    /\ current_location = 0
    /\ errors = <<>>
    /\ tokens = <<>>
    /\ token_source = 0
    /\ lex_pc = "idle"
    /\ starts = <<>>
    /\ current = 0
    /\ parsed = <<"None">>

Next ==
    \/ EvalNumber
    \/ EvalString
    \/ EvalArray
    \/ EvalArrayNext
    \/ EvalIdentifier
    \/ interpret_block
    \/ interpret_block_return
    \/ parse_anonymous_function
    \/ function_application
    \/ function_application_error
    \/ function_application_core
    \/ function_application_user
    \/ interpret_block_with_bindings_return
    \/ function_application_return
    \/ EvalCond
    \/ EvalCondNext
    \/ EvalLet
    \/ EvalDef
    \/ EvalAssignment
    \/ interpret_let
    \/ interpret_def
    \/ interpret_assignment

Spec == Init /\ [][Next]_vars

\* the run is over: the result has reached interpret_default
Done == ctl[1] = "ret" /\ stack = <<>>

-----------------------------------------------------------------------------
(* The lexer (src/parser/src/lexer.rs).  A source is a sequence of          *)
(* characters, each a string of length one; input counts the characters     *)
(* that the Peekable<Chars> iterator has yielded.                           *)

\* enum Token
TIdentifier(name) == <<"Identifier", name>>
TString(str)      == <<"String", str>>
TKeyword(keyword) == <<"Keyword", keyword>>
TInteger(num)     == <<"Integer", num>>
OpenParen  == <<"OpenParen">>
CloseParen == <<"CloseParen">>
OpenBrace  == <<"OpenBrace">>
CloseBrace == <<"CloseBrace">>
Comma      == <<"Comma">>
Semicolon  == <<"Semicolon">>
Arrow      == <<"Arrow">>
EOF        == <<"EOF">>
TokenError == <<"Error">>

\* struct TokenContainer
TokenContainer(token, src) == [token |-> token, source |-> src]

\* Lexer::new: the keywords map
keywords ==
    ("lambda" :> TKeyword("Lambda")) @@ ("λ" :> TKeyword("Lambda"))
    @@ ("let" :> TKeyword("Let")) @@ ("def" :> TKeyword("Def"))
    @@ ("cond" :> TKeyword("Cond"))

\* char::is_whitespace and char::is_digit(10), on ASCII
is_whitespace(c) == c \in {" ", "\t", "\n", "\r"}
is_digit(c) == c \in {"0", "1", "2", "3", "4", "5", "6", "7", "8", "9"}

is_delimiter(c) == c \in {" ", "\t", "\n", "\"", "(", ")", "{", "}", ",", ";"}
is_id_char(c) == ~(is_whitespace(c) \/ is_delimiter(c))
is_id_start(c) == is_id_char(c) /\ ~(is_digit(c) \/ c \in {"+", "-"})

\* Lexer::peek_char after i characters have been yielded
peek_char(src, i) == IF i < Len(src) THEN <<"Some", src[i + 1]>> ELSE <<"None">>

\* the characters src[from + 1 .. to] as one string
RECURSIVE Collect(_, _, _)
Collect(src, from, to) ==
    IF from >= to THEN "" ELSE src[from + 1] \o Collect(src, from + 1, to)

\* width of the modelled usize
UsizeBits == 5
USIZE_MAX == 2 ^ UsizeBits - 1

\* current_location after n calls of next_char: `+= 1` on a usize panics on
\* overflow in a debug build and wraps in a release build
add_location(loc, n) ==
    IF loc + n > USIZE_MAX
    THEN {<<"Panic">>, <<"Ok", (loc + n) % (2 ^ UsizeBits)>>}
    ELSE {<<"Ok", loc + n>>}

\* the iterator after next(): an exhausted iterator stays exhausted
advance(src, i) == IF i < Len(src) THEN i + 1 ELSE i

\* the outcome of lexing one token: the token, the iterator afterwards, how
\* often next_char was called and the errors pushed; or a panic
Lexed(token, i, moved, errs) ==
    [panic |-> FALSE, token |-> token, input |-> i, moved |-> moved, errors |-> errs]
LexPanic(msg) == [panic |-> TRUE, message |-> msg]

\* lex_identifier_or_keyword: the `while let` over IDCHARs ends at j
RECURSIVE IdEnd(_, _)
IdEnd(src, j) ==
    IF j < Len(src) /\ is_id_char(src[j + 1]) THEN IdEnd(src, j + 1) ELSE j

lex_identifier_or_keyword(src, i) ==
    IF i >= Len(src) THEN Lexed(TIdentifier(""), i, 0, <<>>)
    ELSE IF ~is_id_start(src[i + 1])
    THEN LexPanic("Invalid identifier start character")
    ELSE LET end == IdEnd(src, i + 1)
             identifier == Collect(src, i, end)
         IN  Lexed(IF identifier \in DOMAIN keywords THEN keywords[identifier]
                   ELSE TIdentifier(identifier),
                   end, end - i, <<>>)

\* lex_integer: an optional sign, then the `while let` over digits ends at j
RECURSIVE DigitsEnd(_, _)
DigitsEnd(src, j) ==
    IF j < Len(src) /\ is_digit(src[j + 1]) THEN DigitsEnd(src, j + 1) ELSE j

DigitValue(c) ==
    CASE c = "0" -> 0 [] c = "1" -> 1 [] c = "2" -> 2 [] c = "3" -> 3
      [] c = "4" -> 4 [] c = "5" -> 5 [] c = "6" -> 6 [] c = "7" -> 7
      [] c = "8" -> 8 [] c = "9" -> 9

\* the number written by the digits src[from + 1 .. to]
RECURSIVE DigitsValue(_, _, _)
DigitsValue(src, from, to) ==
    IF from >= to THEN 0
    ELSE 10 * DigitsValue(src, from, to - 1) + DigitValue(src[to])

\* str::parse::<i64> of an optional sign and the digits src[from + 1 .. to]
parse_i64(src, sign, from, to) ==
    IF from >= to THEN <<"Err", "InvalidDigit">>
    ELSE LET value == IF sign = "-" THEN 0 - DigitsValue(src, from, to)
                      ELSE DigitsValue(src, from, to)
         IN  IF InI64(value) THEN <<"Ok", value>> ELSE <<"Err", "Overflow">>

lex_integer(src, i) ==
    LET sign == IF src[i + 1] \in {"+", "-"} THEN src[i + 1] ELSE ""
        from == IF sign = "" THEN i ELSE i + 1
        end  == DigitsEnd(src, from)
        num  == parse_i64(src, sign, from, end)
    IN  IF num[1] = "Err" THEN LexPanic("called Result::unwrap() on an Err value")
        ELSE Lexed(TInteger(num[2]), end, end - i, <<>>)


\* lex_string from the character after the opening quote: the loop ends at
\* the closing quote or at the end of the input
RECURSIVE StringScan(_, _, _, _)
StringScan(src, i, j, content) ==
    IF j >= Len(src) THEN Lexed(TString(content), j, j - i, <<>>)
    ELSE CASE src[j + 1] = "\"" -> Lexed(TString(content), j + 1, j + 1 - i, <<>>)
           [] src[j + 1] = "\\" ->
                IF j + 1 >= Len(src) THEN StringScan(src, i, j + 1, content)
                ELSE CASE src[j + 2] = "\\" -> StringScan(src, i, j + 2, content \o "\\")
                       [] src[j + 2] = "\"" -> StringScan(src, i, j + 2, content \o "\"")
                       [] src[j + 2] = "t"  -> StringScan(src, i, j + 2, content \o "\t")
                       [] src[j + 2] = "n"  -> StringScan(src, i, j + 2, content \o "\n")
                       [] src[j + 2] = "r"  -> StringScan(src, i, j + 2, content \o "\r")
                       [] OTHER -> LexPanic("Invalid escape sequence")
           [] OTHER -> StringScan(src, i, j + 1, content \o src[j + 1])

lex_string(src, i) == StringScan(src, i, i + 1, "")

\* the match of next_token on the character peeked after skipping; loc is
\* current_location
match_token(src, i, loc) ==
    IF i >= Len(src) THEN Lexed(EOF, i, 0, <<>>)
    ELSE LET c == src[i + 1]
         IN  CASE c = "\"" -> lex_string(src, i)
               [] c = "("  -> Lexed(OpenParen, i + 1, 1, <<>>)
               [] c = ")"  -> Lexed(CloseParen, i + 1, 1, <<>>)
               [] c = "{"  -> Lexed(OpenBrace, i + 1, 1, <<>>)
               [] c = "}"  -> Lexed(CloseBrace, i + 1, 1, <<>>)
               [] c = ","  -> Lexed(Comma, i + 1, 1, <<>>)
               [] c = ";"  -> Lexed(Semicolon, i + 1, 1, <<>>)
               [] c = "="  ->
                    IF peek_char(src, i + 1) = <<"Some", ">">>
                    THEN Lexed(Arrow, i + 2, 0, <<>>)
                    ELSE lex_identifier_or_keyword(src, i)
               [] OTHER ->
                    IF is_id_start(c) THEN lex_identifier_or_keyword(src, i)
                    ELSE IF is_digit(c) \/ c \in {"+", "-"} THEN lex_integer(src, i)
                    ELSE Lexed(TokenError, i + 1, 1, <<loc>>)

\* bytes of the UTF-8 encoding of a character of the modelled alphabet
ByteLen(c) == IF c = "λ" THEN 2 ELSE 1

\* the byte offset of the character after the first i characters
RECURSIVE ByteOffset(_, _)
ByteOffset(src, i) ==
    IF i = 0 THEN 0 ELSE ByteOffset(src, i - 1) + ByteLen(src[i])

\* Lexer::next_char
next_char ==
    /\ input' = advance(source, input)
    /\ \E o \in add_location(current_location, 1) :
          IF o[1] = "Panic"
          THEN current_location' = current_location /\ lex_pc' = "abort"
          ELSE current_location' = o[2] /\ lex_pc' = lex_pc

\* next_token_container: the `source` field is evaluated before next_token
next_token_container ==
    /\ lex_pc = "parse"
    /\ token_source' = current_location
    /\ lex_pc' = "skip"
    /\ UNCHANGED <<parser_vars, interp_vars, source, input, current_location, errors, tokens,
                   starts>>

\* skip_whitespace_and_comments: a whitespace character is skipped
skip_whitespace ==
    /\ lex_pc = "skip"
    /\ peek_char(source, input)[1] = "Some"
    /\ is_whitespace(peek_char(source, input)[2])
    /\ next_char
    /\ UNCHANGED <<parser_vars, interp_vars, source, errors, tokens, token_source, starts>>

\* skip_whitespace_and_comments: `*c == '/' && self.peek_char() == Some(&'/')`
\* peeks the same character twice, so one '/' opens a comment
skip_comment_begin ==
    /\ lex_pc = "skip"
    /\ peek_char(source, input) = <<"Some", "/">>
    /\ lex_pc' = "comment"
    /\ UNCHANGED <<parser_vars, interp_vars, source, input, current_location, errors, tokens,
                   token_source, starts>>

\* the inner loop `while self.peek_char() != Some(&'\n') { self.next_char() }`
skip_comment_char ==
    /\ lex_pc = "comment"
    /\ peek_char(source, input) # <<"Some", "\n">>
    /\ next_char
    /\ UNCHANGED <<parser_vars, interp_vars, source, errors, tokens, token_source, starts>>

skip_comment_end ==
    /\ lex_pc = "comment"
    /\ peek_char(source, input) = <<"Some", "\n">>
    /\ lex_pc' = "skip"
    /\ UNCHANGED <<parser_vars, interp_vars, source, input, current_location, errors, tokens,
                   token_source, starts>>

\* next_token after skipping, and the body of the loop of parse: the token
\* is pushed and the loop ends with the EOF token
next_token ==
    /\ lex_pc = "skip"
    /\ peek_char(source, input)[1] = "Some" =>
          /\ ~is_whitespace(peek_char(source, input)[2])
          /\ peek_char(source, input)[2] # "/"
    /\ LET r == match_token(source, input, current_location)
       IN  IF r.panic
           THEN /\ lex_pc' = "abort"
                /\ UNCHANGED <<input, current_location, errors, tokens, starts>>
           ELSE /\ input' = r.input
                /\ errors' = errors \o r.errors
                /\ \E o \in add_location(current_location, r.moved) :
                      IF o[1] = "Panic"
                      THEN /\ lex_pc' = "abort"
                           /\ UNCHANGED <<current_location, tokens, starts>>
                      ELSE /\ current_location' = o[2]
                           /\ tokens' = Append(tokens,
                                            TokenContainer(r.token, token_source))
                           /\ starts' = Append(starts, ByteOffset(source, input))
                           /\ lex_pc' = IF r.token = EOF THEN "done" ELSE "parse"
    /\ UNCHANGED <<parser_vars, interp_vars, source, token_source>>

-----------------------------------------------------------------------------
(* The sources that are tokenised.                                          *)

\* the characters of a text
Chars(text) == [k \in 1..Len(text) |-> SubSeq(text, k, k)]

\* characters of a generated source
MaxSourceLen == 4

\* whitespace, a newline, the comment and arrow characters, an identifier
\* character, a digit, a sign and a quote
LexAlphabet == {" ", "\n", "/", "=", ">", "a", "1", "-", "\""}

GeneratedSources == SeqsFromZero(LexAlphabet, MaxSourceLen)

\* the least integer literal that is above i64::MAX
OverflowLiteral == ToString(I64_MAX + 1)

\* a comment without and with a newline after it, a single '/', assignments
\* and arrows, the characters that are one token each, keywords, λ, integer
\* literals that fit and do not fit, a lone sign, strings with escapes
FixedTexts ==
    {"// c", "a // c", "// c\na", "a / b", "a /\nb",
     "let x = 5", "x = 5", "x=5", "a => b", "(a => 1)", "=> a", "a=>b",
     "{f(a,b);}", "def f 1", "cond", "lambda", "λ(n)", "λ x", " λ",
     "-12 +3", "+", "- 1", OverflowLiteral, "-" \o OverflowLiteral \o "0",
     "\"a b\"", "\"a\\n\\t\\r\\\\\\\"\"", "\"\\q\"", "\"a\\", "\"ab"}

Sources == GeneratedSources \cup {Chars(text) : text \in FixedTexts}

\* Lexer::new(input) at the start of parse; no program is interpreted
LexInit ==
    /\ source \in Sources
    /\ input = 0
    /\ current_location = 0
    /\ errors = <<>>
    /\ tokens = <<>>
    /\ token_source = 0
    /\ lex_pc = "parse"
    /\ starts = <<>>
    /\ program = Arr(<<>>)
    /\ lexical_scope = TRUE
    /\ store_output = FALSE
    /\ output = <<>>
    /\ stdout = <<>>
    /\ heap = <<default_environment>>
    /\ local = 1
    /\ ctl = <<"idle">>
    /\ stack = <<>>
    /\ evals = <<>>
    /\ assigns = <<>>
    /\ last = <<"new">>
    /\ current = 0
    /\ parsed = <<"None">>

LexNext ==
    \/ next_token_container
    \/ skip_whitespace
    \/ skip_comment_begin
    \/ skip_comment_char
    \/ skip_comment_end
    \/ next_token

LexSpec == LexInit /\ [][LexNext]_vars

\* the loop of parse runs on: a step that can be taken is taken
LexLive == LexSpec /\ WF_vars(LexNext)

-----------------------------------------------------------------------------
(* The parser (src/parser/src/parser.rs, error.rs).  A parse function       *)
(* takes the token slice and Parser.current and gives At(r, cur): r is      *)
(* Ok(value), Err(parse error) or Panic(message), cur is Parser.current     *)
(* when the function has returned.  consume gives Ok(TRUE) or Ok(FALSE).    *)
(* The source name and text that every ParseError carries along are the     *)
(* arguments of Parser::new and are left out.                               *)

\* Token::Equals, the variant that parse_let and parse_assignment consume
Equals == <<"Equals">>

\* impl LexToken: token() and source() of a TokenContainer and of a bare
\* Token, which has no source
LexToken_token(t) == t.token
LexToken_source(t) ==
    IF "source" \in DOMAIN t THEN <<"Some", t.source>> ELSE <<"None">>

\* a bare Token as an element of the slice
BareToken(token) == [token |-> token]

At(r, cur) == [r |-> r, cur |-> cur]

\* tokens[current] with current beyond the slice
IndexPanic == Panic("index out of bounds")
\* Option::unwrap on the source of a bare Token
UnwrapPanic == Panic("called Option::unwrap() on a None value")

\* Parser::current_token and Parser::current_source, for current in bounds
current_token(toks, cur) == LexToken_token(toks[cur + 1])
current_source(toks, cur) == LexToken_source(toks[cur + 1])

\* derive(PartialEq) for Token: the same variant with the same payload
TokenEq(a, b) == a[1] = b[1] /\ a = b

\* Parser::consume
consume(toks, cur, token) ==
    IF cur >= Len(toks) THEN At(IndexPanic, cur)
    ELSE IF TokenEq(current_token(toks, cur), token) THEN At(Ok(TRUE), cur + 1)
    ELSE At(Ok(FALSE), cur)

\* json!({ key: [items] })
json(key, items) == <<key, Arr(items)>>

\* ParseError::new and ParseError::new_full
ParseError_new_full(error_type, span, label, help, other_spans) ==
    [error_type |-> error_type, label |-> label, main_span |-> span,
     other_spans |-> other_spans, help |-> help]
ParseError_new(error_type, span, label) ==
    ParseError_new_full(error_type, span, label, <<"None">>, <<>>)

\* ParseError::change_label, add_spans, add_help
change_label(e, new_label) == [e EXCEPT !.label = new_label]
add_spans(e, additional_spans) ==
    [e EXCEPT !.other_spans = e.other_spans \o additional_spans]
add_help(e, help) == [e EXCEPT !.help = <<"Some", help>>]

\* LabeledSpan::at
LabeledSpan_at(offset, label) == [offset |-> offset, label |-> label]

\* the error of a span that starts at the current token's source
ErrorAtSource(src, e) == IF src[1] = "None" THEN UnwrapPanic ELSE Err(e)

RECURSIVE parse_exp(_, _)
RECURSIVE parse_form(_, _)
RECURSIVE parse_atom(_, _)
RECURSIVE parse_application(_, _, _)
RECURSIVE parse_arguments(_, _, _)
RECURSIVE parse_lambda(_, _)
RECURSIVE parse_cond(_, _)
RECURSIVE parse_clauses(_, _, _)
RECURSIVE parse_clause(_, _)
RECURSIVE parse_block(_, _)
RECURSIVE parse_block_exps(_, _, _, _)
RECURSIVE parse_let(_, _)
RECURSIVE parse_definition(_, _)
RECURSIVE parse_assignment(_, _)

\* Parser::parse_identifier
parse_identifier(toks, cur) ==
    IF cur >= Len(toks) THEN At(IndexPanic, cur)
    ELSE IF current_token(toks, cur)[1] = "Identifier"
    THEN At(Ok(Id(current_token(toks, cur)[2])), cur + 1)
    ELSE LET src == current_source(toks, cur)
         IN  At(ErrorAtSource(src,
                  ParseError_new_full("UNEXPECTED", <<src[2], 2>>,
                      "Expected an identifier",
                      <<"Some", "A valid identifier starts with a valid unicode character, but not a digit, '+' or '-'.">>,
                      <<>>)),
                cur)

\* Parser::parse_assignment
parse_assignment(toks, cur) ==
    LET ident == parse_identifier(toks, cur)
        equals    == consume(toks, ident.cur, Equals)
        body  == parse_exp(toks, equals.cur)
    IN  IF ~IsOk(ident.r) THEN ident
        ELSE IF ~IsOk(equals.r) THEN equals
        ELSE IF ~equals.r[2] THEN ident
        ELSE IF ~IsOk(body.r) THEN body
        ELSE At(Ok(json("Assignment", <<ident.r[2], body.r[2]>>)), body.cur)

\* Parser::parse_atom
parse_atom(toks, cur) ==
    IF cur >= Len(toks) THEN At(IndexPanic, cur)
    ELSE LET t == current_token(toks, cur)
         IN  CASE t[1] = "Identifier" -> parse_assignment(toks, cur)
               [] t[1] = "Integer"    -> At(Ok(Num(t[2])), cur + 1)
               [] t[1] = "String"     -> At(Ok(Str(t[2])), cur + 1)
               [] OTHER -> At(Panic("Unexpected atom: " \o t[1]), cur)

\* Parser::parse_definition
parse_definition(toks, cur) ==
    LET kw   == consume(toks, cur, TKeyword("Def"))
        name == parse_atom(toks, kw.cur)
        body == parse_exp(toks, name.cur)
    IN  IF ~IsOk(kw.r) THEN kw
        ELSE IF ~IsOk(name.r) THEN name
        ELSE IF ~IsOk(body.r) THEN body
        ELSE At(Ok(json("Def", <<name.r[2], body.r[2]>>)), body.cur)

\* Parser::parse_let
parse_let(toks, cur) ==
    LET kw         == consume(toks, cur, TKeyword("Let"))
        identifier == parse_identifier(toks, kw.cur)
        equals         == consume(toks, identifier.cur, Equals)
        src        == current_source(toks, equals.cur)
        exp        == parse_exp(toks, equals.cur)
    IN  IF ~IsOk(kw.r) THEN kw
        ELSE IF ~IsOk(identifier.r) THEN identifier
        ELSE IF ~IsOk(equals.r) THEN equals
        ELSE IF ~equals.r[2]
        THEN At(ErrorAtSource(src,
                  ParseError_new_full("LET", <<src[2] + 1, 1>>,
                      "Expected an '='",
                      <<"Some", "Let expression has form 'let x = 5'">>,
                      <<>>)),
                equals.cur)
        ELSE IF ~IsOk(exp.r) THEN exp
        ELSE At(Ok(json("Let", <<identifier.r[2], exp.r[2]>>)), exp.cur)

\* Parser::parse_block, the loop `while !self.consume(&Token::CloseBrace)`:
\* exps are the expressions parsed so far, current_source the source of the
\* token at which the block began
parse_block_exps(toks, cur, exps, start_source) ==
    LET close == consume(toks, cur, CloseBrace)
        exp   == parse_exp(toks, cur)
        semi  == consume(toks, exp.cur, Semicolon)
    IN  IF ~IsOk(close.r) THEN close
        ELSE IF close.r[2] THEN At(Ok(json("Block", exps)), close.cur)
        ELSE IF IsPanic(exp.r) THEN exp
        ELSE IF IsErr(exp.r)
        THEN IF exp.r[2].error_type # "BLOCK" THEN exp
             ELSE IF start_source[1] = "None"
             THEN At(Panic("Expect block start source to exist"), exp.cur)
             ELSE At(Err(add_help(
                           add_spans(
                             change_label(exp.r[2], "Found end of block"),
                             <<LabeledSpan_at(start_source[2],
                                              "Found opening '{' here")>>),
                           "Close the block with a '}'")),
                     exp.cur)
        ELSE IF ~IsOk(semi.r) THEN semi
        ELSE parse_block_exps(toks, semi.cur, Append(exps, exp.r[2]),
                              start_source)

\* Parser::parse_block
parse_block(toks, cur) ==
    LET src  == current_source(toks, cur)
        open == consume(toks, cur, OpenBrace)
    IN  IF ~IsOk(open.r) THEN open
        ELSE IF ~open.r[2]
        THEN At(ErrorAtSource(src,
                  ParseError_new_full("BLOCK", <<src[2], 1>>, "Expected a block",
                      <<"Some", "Create a block with enclosing braces">>, <<>>)),
                cur)
        ELSE parse_block_exps(toks, open.cur, <<>>, src)

\* Parser::parse_parameters, from the head of the loop with params collected
RECURSIVE parse_parameters(_, _, _)
parse_parameters(toks, cur, params) ==
    IF cur >= Len(toks) THEN At(IndexPanic, cur)
    ELSE IF current_token(toks, cur)[1] # "Identifier"
    THEN At(Ok(json("Parameters", params)), cur)
    ELSE LET more  == Append(params, Id(current_token(toks, cur)[2]))
             comma == consume(toks, cur + 1, Comma)
         IN  IF ~IsOk(comma.r) THEN comma
             ELSE IF ~comma.r[2] THEN At(Ok(json("Parameters", more)), comma.cur)
             ELSE parse_parameters(toks, comma.cur, more)

\* Parser::parse_lambda
parse_lambda(toks, cur) ==
    LET open   == consume(toks, cur + 1, OpenParen)
        params == parse_parameters(toks, open.cur, <<>>)
        close  == consume(toks, params.cur, CloseParen)
        block  == parse_block(toks, close.cur)
    IN  IF ~IsOk(open.r) THEN open
        ELSE IF ~IsOk(params.r) THEN params
        ELSE IF ~IsOk(close.r) THEN close
        ELSE IF ~IsOk(block.r) THEN block
        ELSE At(Ok(json("Lambda", <<params.r[2], block.r[2]>>)), block.cur)

\* Parser::parse_clause
parse_clause(toks, cur) ==
    LET open      == consume(toks, cur, OpenParen)
        condition == parse_exp(toks, open.cur)
        arrow     == consume(toks, condition.cur, Arrow)
        result    == parse_exp(toks, arrow.cur)
        close     == consume(toks, result.cur, CloseParen)
    IN  IF ~IsOk(open.r) THEN open
        ELSE IF ~IsOk(condition.r) THEN condition
        ELSE IF ~IsOk(arrow.r) THEN arrow
        ELSE IF ~IsOk(result.r) THEN result
        ELSE IF ~IsOk(close.r) THEN close
        ELSE At(Ok(json("Clause", <<condition.r[2], result.r[2]>>)), close.cur)

\* Parser::parse_cond, the loop `while let Token::OpenParen = ...`
parse_clauses(toks, cur, clauses) ==
    LET clause == parse_clause(toks, cur)
    IN  IF cur >= Len(toks) THEN At(IndexPanic, cur)
        ELSE IF ~TokenEq(current_token(toks, cur), OpenParen)
        THEN At(Ok(json("Cond", clauses)), cur)
        ELSE IF ~IsOk(clause.r) THEN clause
        ELSE parse_clauses(toks, clause.cur, Append(clauses, clause.r[2]))

\* Parser::parse_cond
parse_cond(toks, cur) == parse_clauses(toks, cur + 1, <<>>)

\* Parser::parse_application, the loop over the arguments
parse_arguments(toks, cur, args) ==
    LET exp   == parse_exp(toks, cur)
        close == consume(toks, exp.cur, CloseParen)
        comma == consume(toks, close.cur, Comma)
    IN  IF ~IsOk(exp.r) THEN exp
        ELSE IF ~IsOk(close.r) THEN close
        ELSE IF close.r[2] THEN At(Ok(App(Append(args, exp.r[2]))), close.cur)
        ELSE IF ~IsOk(comma.r) THEN comma
        ELSE parse_arguments(toks, comma.cur, Append(args, exp.r[2]))

\* Parser::parse_application
parse_application(toks, cur, func) ==
    LET open  == consume(toks, cur, OpenParen)
        close == consume(toks, open.cur, CloseParen)
    IN  IF ~IsOk(open.r) THEN open
        ELSE IF ~IsOk(close.r) THEN close
        ELSE IF close.r[2] THEN At(Ok(App(<<func>>)), close.cur)
        ELSE parse_arguments(toks, close.cur, <<func>>)

\* Parser::parse_form
parse_form(toks, cur) ==
    IF cur >= Len(toks) THEN At(IndexPanic, cur)
    ELSE LET t == current_token(toks, cur)
         IN  CASE t = TKeyword("Def")    -> parse_definition(toks, cur)
               [] t = TKeyword("Let")    -> parse_let(toks, cur)
               [] t = TKeyword("Lambda") -> parse_lambda(toks, cur)
               [] t = TKeyword("Cond")   -> parse_cond(toks, cur)
               [] OTHER -> At(Panic("Unexpected form: " \o t[1]), cur)

\* Parser::parse_exp: the `(` after the expression is tested before the
\* expression's error is looked at
parse_exp(toks, cur) ==
    IF cur >= Len(toks) THEN At(IndexPanic, cur)
    ELSE LET t    == current_token(toks, cur)
             src  == current_source(toks, cur)
             expr == CASE t[1] \in {"Identifier", "Integer", "String"} ->
                            parse_atom(toks, cur)
                       [] t[1] = "Keyword"   -> parse_form(toks, cur)
                       [] t[1] = "OpenBrace" -> parse_block(toks, cur)
                       [] OTHER ->
                            At(ErrorAtSource(src,
                                 ParseError_new("BLOCK", <<src[2], 1>>,
                                                "Expected expression")),
                               cur)
         IN  IF t[1] \notin {"Identifier", "Integer", "String", "Keyword",
                             "OpenBrace"}
             THEN expr
             ELSE IF IsPanic(expr.r) THEN expr
             ELSE IF expr.cur >= Len(toks) THEN At(IndexPanic, expr.cur)
             ELSE IF ~TokenEq(current_token(toks, expr.cur), OpenParen) THEN expr
             ELSE IF IsErr(expr.r) THEN expr
             ELSE parse_application(toks, expr.cur, expr.r[2])

\* Parser::parse_program
parse_program(toks, cur) == parse_exp(toks, cur)

-----------------------------------------------------------------------------
(* The token slices and texts that are parsed (lib.rs parse, and            *)
(* Parser::new on a slice as in parser.rs tests::parser).                   *)

\* tokens of a generated slice before its EOF
MaxTokens == 3

TokenAlphabet ==
    {TIdentifier("f"), TIdentifier("x"), TInteger(1), TString("s"),
     TKeyword("Def"), TKeyword("Let"), TKeyword("Lambda"), TKeyword("Cond"),
     OpenParen, CloseParen, OpenBrace, CloseBrace, Comma, Semicolon, Arrow,
     Equals, TokenError}

GeneratedTokens ==
    {Append(ts, EOF) : ts \in SeqsFromZero(TokenAlphabet, MaxTokens)}

\* f(x)(y)
ChainTokens ==
    <<TIdentifier("f"), OpenParen, TIdentifier("x"), CloseParen, OpenParen,
      TIdentifier("y"), CloseParen, EOF>>

\* g(f(x), 1)
NestedCallTokens ==
    <<TIdentifier("g"), OpenParen, TIdentifier("f"), OpenParen,
      TIdentifier("x"), CloseParen, Comma, TInteger(1), CloseParen, EOF>>

\* {def foo 1; let bar = 2; def baz 3}
DefsEqualsTokens ==
    <<OpenBrace, TKeyword("Def"), TIdentifier("foo"), TInteger(1), Semicolon,
      TKeyword("Let"), TIdentifier("bar"), Equals, TInteger(2), Semicolon,
      TKeyword("Def"), TIdentifier("baz"), TInteger(3), CloseBrace, EOF>>

\* { let x = 5
OpenLetTokens ==
    <<OpenBrace, TKeyword("Let"), TIdentifier("x"), Equals, TInteger(5), EOF>>

\* { x = λ(y) 5 }
LambdaInBlockTokens ==
    <<OpenBrace, TIdentifier("x"), Equals, TKeyword("Lambda"), OpenParen,
      TIdentifier("y"), CloseParen, TInteger(5), CloseBrace, EOF>>

\* the slice of parser.rs tests::parser:
\* def fact λ(n) { cond (zero?(n) => 1) (true => mul(n, fact(sub(n, 1)))) }
FactTokens ==
    <<TKeyword("Def"), TIdentifier("fact"), TKeyword("Lambda"), OpenParen,
      TIdentifier("n"), CloseParen, OpenBrace, TKeyword("Cond"), OpenParen,
      TIdentifier("zero?"), OpenParen, TIdentifier("n"), CloseParen, Arrow,
      TInteger(1), CloseParen, OpenParen, TIdentifier("true"), Arrow,
      TIdentifier("mul"), OpenParen, TIdentifier("n"), Comma,
      TIdentifier("fact"), OpenParen, TIdentifier("sub"), OpenParen,
      TIdentifier("n"), Comma, TInteger(1), CloseParen, CloseParen,
      CloseParen, CloseParen, CloseBrace, EOF>>

\* the value that tests::parser and lib.rs tests::factorial expect
FactJson ==
    json("Def", <<Id("fact"),
      json("Lambda", <<json("Parameters", <<Id("n")>>),
        json("Block", <<json("Cond", <<
          json("Clause", <<App(<<Id("zero?"), Id("n")>>), Num(1)>>),
          json("Clause", <<Id("true"),
            App(<<Id("mul"), Id("n"),
                  App(<<Id("fact"),
                        App(<<Id("sub"), Id("n"), Num(1)>>)>>)>>)>>)>>)>>)>>)>>)

\* {def foo 1; let bar 2; def baz 3}, the input of lib.rs tests::defs
DefsTokens ==
    <<OpenBrace, TKeyword("Def"), TIdentifier("foo"), TInteger(1), Semicolon,
      TKeyword("Let"), TIdentifier("bar"), TInteger(2), Semicolon,
      TKeyword("Def"), TIdentifier("baz"), TInteger(3), CloseBrace, EOF>>

FixedTokens ==
    {ChainTokens, NestedCallTokens, DefsTokens, DefsEqualsTokens,
     OpenLetTokens, LambdaInBlockTokens, FactTokens}

\* a slice of TokenContainer, the k-th token two bytes after the one before
\* it, and a slice of bare Token
Containers(ts) == [k \in 1..Len(ts) |-> TokenContainer(ts[k], 2 * (k - 1))]
BareTokens(ts) == [k \in 1..Len(ts) |-> BareToken(ts[k])]

\* the texts handed to parse of lib.rs
\* the text of lib.rs tests::defs with names of one letter
DefsText == "{def a 1; let b 2; def c 3}"
ParseTexts ==
    {DefsText, "f(x)(y)", "{ let x 5 ", "{ 1 ", " { x; ", "1 2",
     "f(x) }", "{1 2}", "f(x y)", "f(x, y)", "{1; 2}", "def {", "def",
     "lambda(x) 5", "{ lambda(x) 5 }", "lambda(x) { x }", "// c\n{ f("}

\* parse of lib.rs on a text, or Parser::new on a slice
ParseInit ==
    /\ \/ /\ source \in {Chars(text) : text \in ParseTexts}
          /\ tokens = <<>>
          /\ lex_pc = "parse"
       \/ /\ source = <<>>
          /\ \/ \E ts \in GeneratedTokens :
                   tokens \in {Containers(ts), BareTokens(ts)}
             \/ \E ts \in FixedTokens :
                   tokens \in {Containers(ts), BareTokens(ts)}
          /\ lex_pc = "done"
    /\ input = 0
    /\ current_location = 0
    /\ errors = <<>>
    /\ token_source = 0
    /\ starts = <<>>
    /\ program = Arr(<<>>)
    /\ lexical_scope = TRUE
    /\ store_output = FALSE
    /\ output = <<>>
    /\ stdout = <<>>
    /\ heap = <<default_environment>>
    /\ local = 1
    /\ ctl = <<"idle">>
    /\ stack = <<>>
    /\ evals = <<>>
    /\ assigns = <<>>
    /\ last = <<"new">>
    /\ current = 0
    /\ parsed = <<"None">>

\* parse of lib.rs after its loop: Parser::new(..).parse_program()
parse ==
    /\ lex_pc = "done"
    /\ parsed = <<"None">>
    /\ parsed' = parse_program(tokens, 0).r
    /\ current' = parse_program(tokens, 0).cur
    /\ UNCHANGED <<interp_vars, lexer_vars>>

ParseNext ==
    \/ next_token_container
    \/ skip_whitespace
    \/ skip_comment_begin
    \/ skip_comment_char
    \/ skip_comment_end
    \/ next_token
    \/ parse

ParseSpec == ParseInit /\ [][ParseNext]_vars

-----------------------------------------------------------------------------
(* Properties of closures and scope exit.                                  *)

C2_BlockRestoresFrame ==
    last[1] = "interpret_block" => local = last[2]

\* C3: whenever the call of a user function has returned, with a value or
\* with an error, under lexical and under dynamic scope, the current frame is
\* the frame that was current when the caller started the body
C3_CallRestoresFrame ==
    last[1] = "function_application" => local = last[2]


\* the identifiers that occur in the programs, and the built-in names
Names ==
    {"x", "y", "v", "i", "q", "a", "c", "f", "p", "r", "s", "t", "n", "fact",
     "even", "odd", "inc", "read", "true", "false"}
    \cup {CoreNames[k] : k \in 1..Len(CoreNames)}

\* the names assigned since the history mark from
AssignedSince(from) == {assigns[k] : k \in (from + 1)..Len(assigns)}

\* C4: after a block has completed, every name that the block did not assign
\* resolves from the current frame as it did from the enclosing frame before
\* the block ran: bindings made by let or def inside the block are gone;
\* { { let x 5 }; x } is the root's 10 and { let x 1; { let x 2 }; x } is 1
C4_BlockBindingsDoNotLeak ==
    /\ (last[1] = "interpret_block" /\ last[3]) =>
          \A n \in Names \ AssignedSince(last[5]) :
              lookup(heap, local, n) = lookup(last[4], last[2], n)
    /\ (program = InnerLetProgram /\ Done) => ctl[2] = Ok(Integer(10))
    /\ (program = ShadowLetProgram /\ Done) => ctl[2] = Ok(Integer(1))

\* the inner block of { let x 1; { let x 2 }; x } has completed: a frame
\* binds x to 2 and x resolves to 1
C4_Witness ==
    /\ program = ShadowLetProgram
    /\ last[1] = "interpret_block" /\ last[3]
    /\ Len(stack) > 0
    /\ \E k \in 1..Len(heap) :
          "x" \in DOMAIN heap[k].variables /\ heap[k].variables["x"] = Integer(2)
    /\ lookup(heap, local, "x") = <<"Some", Integer(1)>>

\* C5: two functions defined with def in the same block resolve each other
\* and themselves when called after both defs: the def-bound factorial of 5
\* is 120 and the def-bound even/odd pair decides even(3), also when a let
\* stands between the two defs
C5_DefsSeeEachOther ==
    Done =>
        /\ program = FactProgram => ctl[2] = Ok(Integer(120))
        /\ program \in {ParityProgram, ParityLetProgram} =>
              ctl[2] = Ok(Boolean(FALSE))

\* C6: an assignment to a name that the current frame chain defines returns
\* the new value and the name then resolves to it; an assignment to a name
\* that no frame of the chain defines fails with undefined-symbol and leaves
\* every frame as it was
C6_Assignment ==
    (last[1] = "interpret_assignment" /\ last[3]) =>
        IF lookup(last[5], local, last[2])[1] = "Some"
        THEN /\ ctl = <<"ret", Ok(last[4])>>
             /\ lookup(heap, local, last[2]) = <<"Some", last[4]>>
        ELSE /\ ctl = <<"ret", Err(UndefinedError(last[2]))>>
             /\ heap = last[5]

\* an assignment has changed a binding of a frame that is not the current one
C6_Witness ==
    /\ last[1] = "interpret_assignment" /\ last[3]
    /\ ctl = <<"ret", Ok(last[4])>>
    /\ last[2] \notin DOMAIN heap[local].variables
    /\ heap # last[5]

\* what a cond of conditions true / false / x (an integer) and results
\* 101, 102, ... must evaluate, by the rule of the first true clause:
\* k is the first clause whose condition is not false, 0 if there is none
FirstNotFalse(clauses) ==
    IF \A k \in 1..Len(clauses) : clauses[k][1] = Id("false") THEN 0
    ELSE CHOOSE k \in 1..Len(clauses) :
            /\ clauses[k][1] # Id("false")
            /\ \A j \in 1..(k - 1) : clauses[j][1] = Id("false")

ConditionsUpTo(clauses, k) == [j \in 1..k |-> clauses[j][1]]

\* C7: a cond evaluates its conditions in source order up to the first true
\* one and then that clause's result only; a non-boolean condition ends the
\* cond with a type error and no result is evaluated; all false gives false
C7_CondSelection ==
    Done =>
        /\ program \in CondPrograms =>
              LET clauses == program[2]
                  k == FirstNotFalse(clauses)
              IN  IF k = 0
                  THEN /\ evals = <<program>> \o ConditionsUpTo(clauses, Len(clauses))
                       /\ ctl[2] = Ok(Boolean(FALSE))
                  ELSE IF clauses[k][1] = Id("true")
                  THEN /\ evals = <<program>> \o ConditionsUpTo(clauses, k)
                                  \o <<clauses[k][2]>>
                       /\ ctl[2] = Ok(Integer(100 + k))
                  ELSE /\ evals = <<program>> \o ConditionsUpTo(clauses, k)
                       /\ ctl[2] = Err(TypeError("bool", "10"))
        /\ program = CondPrintProgram =>
              (IF store_output THEN output ELSE stdout) = <<"a", "c", "d">>

\* cond (false => 101) (true => 102) (x => 103) has returned 102
C7_Witness ==
    /\ program = CondOf(<<Id("false"), Id("true"), Id("x")>>)
    /\ Done
    /\ ctl[2] = Ok(Integer(102))
    /\ Len(evals) = 4

\* C8: applying a user function to a number of arguments other than its
\* number of parameters fails with an argument-count error that carries the
\* function's name, the number of parameters and the number of arguments,
\* and the body has not been evaluated
C8_ArityError ==
    (/\ last[1] = "function_application_error"
     /\ IsOk(last[2])
     /\ last[2][2][1] = "List"
     /\ Len(last[2][2][2]) > 0
     /\ last[2][2][2][1][1] = "Function"
     /\ Len(last[2][2][2][1][3]) # Len(last[2][2][2]) - 1) =>
        LET func == last[2][2][2][1]
        IN  /\ ctl = <<"ret", Err(ArgumentError(func[2], Len(func[3]),
                                                Len(last[2][2][2]) - 1))>>
            /\ \A k \in 1..Len(evals) : evals[k] # func[4]
            /\ \A k \in 1..Len(output) : output[k] # "body"
            /\ \A k \in 1..Len(stdout) : stdout[k] # "body"

\* a function of two parameters, bound by def, has been applied to one argument
C8_Witness ==
    /\ last[1] = "function_application_error"
    /\ ctl[1] = "ret" /\ IsErr(ctl[2])
    /\ ctl[2][2][1] = "ArgumentError"
    /\ ctl[2][2][3] = 2 /\ ctl[2][2][4] = 1
    /\ program \in NamedCallPrograms

RECURSIVE PreOrder(_)
RECURSIVE PreOrderAll(_)
PreOrderAll(items) ==
    IF Len(items) = 0 THEN <<>>
    ELSE PreOrder(items[1]) \o PreOrderAll(Tail(items))
PreOrder(e) ==
    <<e>> \o
    CASE e[1] = "Array" -> PreOrderAll(e[2])
      [] e[1] \in {"Block", "Application"} -> PreOrder(e[2])
      [] e[1] \in {"Let", "Def", "Assignment"} -> PreOrder(e[3])
      [] OTHER -> <<>>

\* the effects of the expressions below e in source order: the chunk that a
\* print or println of a string writes, the name that an assignment changes
RECURSIVE EffectsOf(_)
RECURSIVE EffectsOfAll(_)
EffectsOfAll(items) ==
    IF Len(items) = 0 THEN <<>>
    ELSE EffectsOf(items[1]) \o EffectsOfAll(Tail(items))
EffectsOf(e) ==
    CASE e[1] = "Array" -> EffectsOfAll(e[2])
      [] e[1] = "Block" -> EffectsOf(e[2])
      [] e[1] = "Application" ->
            EffectsOf(e[2]) \o
            (IF e[2][2][1] = Id("print") THEN <<<<"chunk", e[2][2][2][2]>>>>
             ELSE IF e[2][2][1] = Id("println")
                  THEN <<<<"chunk", e[2][2][2][2] \o "\n">>>>
                  ELSE <<>>)
      [] e[1] = "Assignment" -> EffectsOf(e[3]) \o <<<<"assign", e[2]>>>>
      [] OTHER -> <<>>

Only(kind, effects) == SelectSeq(effects, LAMBDA x : x[1] = kind)
Second(effects) == [k \in 1..Len(effects) |-> effects[k][2]]

\* C10: the arguments of an application and the expressions of a block are
\* evaluated in source order, each exactly once, and their captured output
\* and their assignments happen in that order
C10_SourceOrder ==
    (program \in OrderPrograms /\ Done) =>
        /\ IsOk(ctl[2])
        /\ evals = PreOrder(program)
        /\ assigns = Second(Only("assign", EffectsOf(program)))
        /\ store_output => output = Second(Only("chunk", EffectsOf(program)))

\* as_list(print("a"), x = 1, println("b")) has been evaluated with the
\* output captured
C10_Witness ==
    /\ program = App(<<Id("as_list"), App(<<Id("print"), Str("a")>>),
                       Assign("x", Num(1)), App(<<Id("println"), Str("b")>>)>>)
    /\ Done
    /\ store_output
    /\ output = <<"a", "b\n">>
    /\ assigns = <<"x">>

-----------------------------------------------------------------------------
(* Properties of the built-in functions.  After function_application_core,  *)
(* last = <<"function_application_core", name, args, output0, stdout0>>:    *)
(* the built-in called, its argument values, and the captured output and    *)
(* standard output before the call.                                         *)

CoreCall(names) == last[1] = "function_application_core" /\ last[2] \in names

\* the entry a call of the output built-in name appends for the value v
OutputEntry(name, v) ==
    CASE name = "print"   -> Display(v)
      [] name = "println" -> Display(v) \o "\n"
      [] name = "dbg"     -> DebugForm(v) \o "\n"

\* C11: with store_output set, a call of print, println or dbg with n
\* arguments appends exactly n entries to the captured output, one per
\* argument in argument order (those of println and dbg ending in a newline),
\* leaves the earlier entries unchanged and writes nothing to standard output
C11_CapturedOutput ==
    (CoreCall(OutputBuiltins) /\ store_output) =>
        /\ Len(output) = Len(last[4]) + Len(last[3])
        /\ SubSeq(output, 1, Len(last[4])) = last[4]
        /\ \A k \in 1..Len(last[3]) :
              output[Len(last[4]) + k] = OutputEntry(last[2], last[3][k])
        /\ stdout = last[5]

\* the display forms as the claim states them: a list in brackets
RECURSIVE BracketedDisplay(_)
RECURSIVE JoinBracketed(_)
JoinBracketed(l) ==
    IF Len(l) = 0 THEN ""
    ELSE IF Len(l) = 1 THEN BracketedDisplay(l[1])
    ELSE BracketedDisplay(l[1]) \o ", " \o JoinBracketed(Tail(l))
BracketedDisplay(v) ==
    CASE v[1] = "Integer" -> ToString(v[2])
      [] v[1] = "Boolean" -> IF v[2] THEN "true" ELSE "false"
      [] v[1] = "String"  -> v[2]
      [] v[1] = "List"    -> "[" \o JoinBracketed(v[2]) \o "]"
      [] v[1] \in {"CoreFunction", "Function"} -> "function: " \o v[2]

\* C12: what print captures for a value is its display form: a list is
\* `[e1, e2, ...]` (the empty list `[]`), an integer its decimal digits, a
\* boolean true or false, a string its raw contents, a function
\* `function: <name>`
C12_DisplayForms ==
    (CoreCall({"print"}) /\ store_output) =>
        \A k \in 1..Len(last[3]) :
            output[Len(last[4]) + k] = BracketedDisplay(last[3][k])

\* C13: set called with a list, an in-range index i and a value v returns the
\* list with v at position i and the other positions unchanged, and set
\* called with any other number of arguments than three returns an
\* argument-count error
C13_SetReplaces ==
    CoreCall({"set"}) =>
        LET args == last[3]
        IN  /\ (/\ Len(args) = 3
                /\ args[1][1] = "List"
                /\ args[2][1] = "Integer"
                /\ InRange(args[2][2], Len(args[1][2]))) =>
                   ctl = <<"ret", Ok(List([k \in 1..Len(args[1][2]) |->
                                            IF k = args[2][2] + 1 THEN args[3]
                                            ELSE args[1][2][k]]))>>
            /\ Len(args) # 3 =>
                   ctl = <<"ret", Err(ArgumentError("set", 3, Len(args)))>>

\* the call ended with an argument-count error that names func and reports
\* got arguments
IsArgumentError(func, got) ==
    /\ ctl[1] = "ret"
    /\ IsErr(ctl[2])
    /\ ctl[2][2][1] = "ArgumentError"
    /\ ctl[2][2][2] = func
    /\ ctl[2][2][4] = got

IsTypeError ==
    ctl[1] = "ret" /\ IsErr(ctl[2]) /\ ctl[2][2][1] = "TypeError"

HasNonInteger(args) == \E k \in 1..Len(args) : args[k][1] # "Integer"

\* C14: a built-in called with too few arguments or with an argument of the
\* wrong variant returns a structured error and does not abort: zero?,
\* length, to_uppercase and to_lowercase without arguments and contains with
\* fewer than two give an argument-count error that names the built-in and
\* reports the number of arguments passed; add, div and greater? with a
\* non-integer give a type error
C14_StructuredErrors ==
    /\ (CoreCall({"zero?", "length", "to_uppercase", "to_lowercase"})
        /\ Len(last[3]) = 0) => IsArgumentError(last[2], 0)
    /\ (CoreCall({"contains"}) /\ Len(last[3]) < 2
        /\ IsOk(exprs_into_string(last[3]))) =>
            IsArgumentError("contains", Len(last[3]))
    /\ (CoreCall({"add", "div", "greater?"}) /\ HasNonInteger(last[3])) =>
            IsTypeError

\* the call has returned an error value to its caller
ReturnsError == ctl[1] = "ret" /\ IsErr(ctl[2])

\* C15: a failure inside a built-in is returned as an error and never aborts
\* the interpreter: div and rem by 0, and get and set with an index that is
\* negative or not smaller than the length of the list
C15_RuntimeErrorsSurface ==
    /\ (CoreCall({"div", "rem"}) /\ Len(last[3]) = 2
        /\ ~HasNonInteger(last[3]) /\ last[3][2][2] = 0) => ReturnsError
    /\ (CoreCall({"get", "set"}) /\ Len(last[3]) >= 2
        /\ last[3][1][1] = "List" /\ last[3][2][1] = "Integer"
        /\ ~InRange(last[3][2][2], Len(last[3][1][2]))) => ReturnsError

\* sum and product of a sequence of integer values
RECURSIVE SumOf(_)
SumOf(args) == IF Len(args) = 0 THEN 0 ELSE SumOf(Tail(args)) + args[1][2]
RECURSIVE ProductOf(_)
ProductOf(args) == IF Len(args) = 0 THEN 1 ELSE ProductOf(Tail(args)) * args[1][2]

\* C16: on integers add returns the sum (0 for none), sub the first argument
\* minus all the others (0 for none, the argument itself for one) and mul the
\* product (1 for none); inner applications are evaluated first, so that
\* add(1, add(2, add(3, add(4, 5)))) is 15 and sub(0, 1) is -1
C16_Arithmetic ==
    /\ (CoreCall({"add"}) /\ ~HasNonInteger(last[3])) =>
            ctl = <<"ret", Ok(Integer(SumOf(last[3])))>>
    /\ (CoreCall({"sub"}) /\ ~HasNonInteger(last[3])) =>
            ctl = <<"ret", Ok(Integer(IF Len(last[3]) = 0 THEN 0
                                      ELSE last[3][1][2] - SumOf(Tail(last[3]))))>>
    /\ (CoreCall({"mul"}) /\ ~HasNonInteger(last[3])) =>
            ctl = <<"ret", Ok(Integer(ProductOf(last[3])))>>
    /\ (program = NestedAddProgram /\ Done) => ctl[2] = Ok(Integer(15))
    /\ (program = SubProgram /\ Done) => ctl[2] = Ok(Integer(-1))
    /\ (program = NestedMulProgram /\ Done) => ctl[2] = Ok(Integer(10))
    /\ (program = NestedAddProgram /\ CoreCall({"add"})) =>
            \A k \in 1..Len(last[3]) : last[3][k][1] = "Integer"

\* the outermost add of add(1, add(2, add(3, add(4, 5)))) has been called
\* with 1 and the value 14 of its inner application and has returned 15
C16_Witness ==
    /\ program = NestedAddProgram
    /\ Done
    /\ CoreCall({"add"})
    /\ last[3] = <<Integer(1), Integer(14)>>
    /\ ctl[2] = Ok(Integer(15))

-----------------------------------------------------------------------------
(* Properties of the lexer.                                                 *)

\* a source without string, sign or digit: nothing in it is a literal
NoLiterals(src) ==
    \A k \in 1..Len(src) : ~(is_digit(src[k]) \/ src[k] \in {"\"", "+", "-"})

\* C17: for every source, asking the lexer for the next token again and
\* again eventually produces the end-of-input token, so the loop of parse
\* ends; also when the last line is a comment without a newline after it and
\* when the source has a single '/'.  The formula asks for less than the
\* claim, that the loop ends at all: with the end-of-input token or, in a
\* build that checks overflow, with a panic
C17_LexerTerminates ==
    NoLiterals(source) => <>(lex_pc = "done" \/ lex_pc = "abort")

\* C18: every token carries the byte offset at which its first character
\* begins, whatever whitespace or comment was skipped before it, with a
\* multi-byte character counted by its bytes, and also after an arrow
C18_TokenOffsets ==
    \A k \in 1..Len(tokens) : tokens[k].source = starts[k]

\* an integer literal outside i64, a sign without a digit, an escape that is
\* none of \\ \" \t \n \r
MalformedSources ==
    {Chars(OverflowLiteral), Chars("+"), Chars("- 1"), Chars("\"\\q\"")}

\* C19: a malformed literal makes the lexer report a lexical error and go
\* on; it never aborts
C19_MalformedLiterals ==
    source \in MalformedSources =>
        /\ lex_pc # "abort"
        /\ lex_pc = "done" => errors # <<>>

\* the kinds of the tokens collected so far
Kinds == [k \in 1..Len(tokens) |-> tokens[k].token[1]]

\* the text has the character c
HasChar(text, c) == \E k \in 1..Len(text) : SubSeq(text, k, k) = c

\* C20: `=` directly followed by `>` is one arrow token, and any other `=`
\* is an equals token of its own, never an identifier or a part of one:
\* `x = 5` is identifier, equals, integer, and so is the rest of `let x = 5`
C20_EqualsToken ==
    /\ (source = Chars("a => b") /\ lex_pc = "done") =>
            Kinds = <<"Identifier", "Arrow", "Identifier", "EOF">>
    /\ \A k \in 1..Len(tokens) :
            tokens[k].token[1] = "Identifier" => ~HasChar(tokens[k].token[2], "=")
    /\ (source \in {Chars("x = 5"), Chars("x=5")} /\ lex_pc = "done") =>
            Kinds = <<"Identifier", "Equals", "Integer", "EOF">>
    /\ (source = Chars("let x = 5") /\ lex_pc = "done") =>
            Kinds = <<"Keyword", "Identifier", "Equals", "Integer", "EOF">>

-----------------------------------------------------------------------------
(* Literals, frames and calls (interpreter.rs, environment.rs,              *)
(* functions.rs).                                                           *)

\* the frames hold what Interpreter::new put there: the default frame is as
\* it was built and every other frame is empty
FramesUntouched ==
    /\ heap[1] = default_environment
    /\ \A k \in 2..Len(heap) : heap[k].variables = NoVars

\* C25: a numeric literal evaluates to an integer exactly when it fits i64;
\* a literal outside i64 is the type error that expects i64, yields no
\* value and leaves every frame as it was, also where it is the right-hand
\* side of a let, a def or an assignment
C25_NumericLiterals ==
    /\ last[1] = "EvalNumber" =>
          /\ ctl[1] = "ret"
          /\ InI64(last[2]) <=> IsOk(ctl[2])
          /\ InI64(last[2]) => ctl[2] = Ok(Integer(last[2]))
          /\ ~InI64(last[2]) => ctl[2] = Err(TypeError("i64", ToString(last[2])))
    /\ \A n \in OutOfRangeLiterals :
          program \in LiteralUses(n) =>
              /\ FramesUntouched
              /\ Done => ctl[2] = Err(TypeError("i64", ToString(n)))
    /\ \A n \in InRangeLiterals :
          (program \in LiteralUses(n) /\ Done) => ctl[2] = Ok(Integer(n))

\* { let y <i64::MAX + 10>; y } has ended with the type error
C25_Witness ==
    /\ program = Block(<<Let("y", Num(I64_MAX + 10)), Id("y")>>)
    /\ Done
    /\ IsErr(ctl[2])

\* the frames from l up to the default frame, nearest first
RECURSIVE Ancestors(_, _)
Ancestors(h, l) ==
    IF h[l].parent = 0 THEN <<l>> ELSE <<l>> \o Ancestors(h, h[l].parent)

\* the nearest frame of the chain from l that has the name, 0 when none has
Owner(h, l, name) ==
    LET c    == Ancestors(h, l)
        hits == {i \in 1..Len(c) : name \in DOMAIN h[c[i]].variables}
    IN  IF hits = {} THEN 0
        ELSE c[CHOOSE i \in hits : \A j \in hits : i <= j]

\* frame k binds the same names to the same values in h1 and h0, but for
\* the names in except
SameBut(h1, h0, k, except) ==
    /\ h1[k].parent = h0[k].parent
    /\ DOMAIN h1[k].variables = DOMAIN h0[k].variables \cup except
    /\ \A n \in DOMAIN h0[k].variables \ except :
            h1[k].variables[n] = h0[k].variables[n]

\* C26: an assignment changes exactly one binding, that of the nearest frame
\* of the current chain that has the name: a shadowed binding further out,
\* every other name and the names of every frame stay as they were.  A def
\* writes into the current frame and a let into the frame it creates;
\* neither changes any other frame
C26_WritesOneFrame ==
    /\ (last[1] = "interpret_assignment" /\ last[3]) =>
          LET o == Owner(last[5], local, last[2])
          IN  /\ Len(heap) = Len(last[5])
              /\ \A k \in 1..Len(heap) :
                    SameBut(heap, last[5], k, IF k = o THEN {last[2]} ELSE {})
              /\ o # 0 => /\ heap[o].variables[last[2]] = last[4]
                          /\ ctl[2] = Ok(last[4])
              /\ o = 0 => ctl[2] = Err(UndefinedError(last[2]))
    /\ (last[1] = "interpret_def" /\ last[3]) =>
          /\ Len(heap) = Len(last[4])
          /\ local = last[5]
          /\ \A k \in 1..Len(heap) :
                SameBut(heap, last[4], k, IF k = local THEN {last[2]} ELSE {})
          /\ heap[local].variables[last[2]] = ctl[2][2]
    /\ (last[1] = "interpret_let" /\ last[3]) =>
          /\ Len(heap) = Len(last[4]) + 1
          /\ local = Len(heap)
          /\ SubSeq(heap, 1, Len(last[4])) = last[4]
          /\ heap[local] = [variables |-> (last[2] :> ctl[2][2]),
                            parent |-> last[5]]

\* an assignment to x has changed the x of a let frame while the default
\* frame, further out on the chain, still binds x to 10
C26_Witness ==
    /\ last[1] = "interpret_assignment" /\ last[3]
    /\ last[2] = "x"
    /\ Owner(last[5], local, "x") > 1
    /\ heap[Owner(last[5], local, "x")].variables["x"] = Integer(3)
    /\ heap[1].variables["x"] = Integer(10)

\* C27: a call of a user function binds the parameters to the arguments in
\* a fresh frame whose parent is the frame the function captured (lexical
\* scope) or the caller's current frame (dynamic scope); the frames that
\* existed, among them those of the activations still running, are not
\* changed; in the body a parameter resolves to its argument whatever an
\* outer frame binds to that name.  So a name only the caller binds is
\* undefined in the body under lexical scope, and a recursive call leaves
\* the parameter of the outer activation as it was
C27_CallFrames ==
    /\ last[1] = "function_application_user" =>
          LET func == last[2]
              rest == last[3]
          IN  /\ Len(heap) = Len(last[4]) + 1
              /\ local = Len(heap)
              /\ SubSeq(heap, 1, Len(last[4])) = last[4]
              /\ heap[local].parent = IF lexical_scope THEN func[5] ELSE last[5]
              /\ DOMAIN heap[local].variables
                    = {func[3][k] : k \in 1..Len(func[3])}
              /\ \A k \in 1..Len(func[3]) :
                    lookup(heap, local, func[3][k]) = <<"Some", rest[k]>>
    /\ (program = CallerOnlyProgram /\ Done) =>
          ctl[2] = IF lexical_scope THEN Err(UndefinedError("q"))
                   ELSE Ok(Integer(1))
    /\ (program = ShadowParamProgram /\ Done) => ctl[2] = Ok(Integer(1))
    /\ (program = SumProgram /\ Done) => ctl[2] = Ok(Integer(6))

\* the recursive call f(2) inside f(3) has bound n to 2 in its own frame;
\* the frame of f(3) still binds n to 3
C27_Witness ==
    /\ program = SumProgram
    /\ last[1] = "function_application_user"
    /\ last[3] = <<Integer(2)>>
    /\ heap[local].variables["n"] = Integer(2)
    /\ \E k \in 1..Len(last[4]) :
          /\ "n" \in DOMAIN heap[k].variables
          /\ heap[k].variables["n"] = Integer(3)

\* C28: the head of an application is evaluated first and must be a function
\* before any argument is evaluated: when the head is not a function the
\* application is the type error that expects a function, no argument
\* expression has been evaluated, no output has been written and no binding
\* has been changed by an argument
C28_HeadBeforeArguments ==
    /\ ( /\ last[1] = "function_application_error"
         /\ IsOk(last[2])
         /\ last[2][2][1] = "List"
         /\ Len(last[2][2][2]) > 0
         /\ ~IsFunctionValue(last[2][2][2][1]) ) =>
          LET items == evals[last[3]][2][2]
          IN  /\ ctl[2] = Err(TypeError("function", Display(last[2][2][2][1])))
              /\ \A k \in (last[3] + 2)..Len(evals) :
                    \A j \in 2..Len(items) : evals[k] # items[j]
    /\ (program = NumberHeadProgram /\ Done) =>
          /\ ctl[2] = Err(TypeError("function", "1"))
          /\ output = <<>> /\ stdout = <<>>
    /\ (program = IdentifierHeadProgram /\ Done) =>
          /\ ctl[2] = Err(TypeError("function", "10"))
          /\ heap[1].variables["x"] = Integer(10)
    /\ (program = StringHeadProgram /\ Done) =>
          /\ ctl[2] = Err(TypeError("function", "s"))
          /\ heap[1].variables["v"] = Integer(5)
          /\ output = <<>> /\ stdout = <<>>

-----------------------------------------------------------------------------
(* Properties of the parser.                                                *)

\* parse_program has returned
Parsed == parsed # <<"None">>

\* the text that was parsed
Text(text) == source = Chars(text)

\* the kinds and payloads of the tokens that were parsed
TokensAre(ts) ==
    /\ Len(tokens) = Len(ts)
    /\ \A k \in 1..Len(ts) : TokenEq(tokens[k].token, ts[k])

\* C21: application suffixes chain: f(x)(y) parses to the application of
\* the application f(x) to y, and every token before EOF is consumed
C21_ApplicationsChain ==
    (Parsed /\ TokensAre(ChainTokens)) =>
        /\ parsed = Ok(App(<<App(<<Id("f"), Id("x")>>), Id("y")>>))
        /\ current = Len(tokens) - 1

\* the diagnostic of a block that was not closed, its opening brace at offset
EndOfBlock(e, offset) ==
    /\ e.label = "Found end of block"
    /\ e.other_spans = <<LabeledSpan_at(offset, "Found opening '{' here")>>
    /\ e.help = <<"Some", "Close the block with a '}'">>

\* C22: when the input ends inside a block, as in `{ let x 5 ` and `{ 1 `,
\* the diagnostic has the primary label "Found end of block", a secondary
\* span at the opening brace labelled "Found opening '{' here" and the help
\* "Close the block with a '}'"
C22_EndInsideBlock ==
    \A text \in {"{ let x 5 ", "{ 1 "} :
        (Parsed /\ Text(text)) =>
            /\ IsErr(parsed)
            /\ EndOfBlock(parsed[2], 0)

\* C23: when the body of a lambda does not begin with `{`, the diagnostic
\* has the label "Expected a block" and the help "Create a block with
\* enclosing braces", at the top level and inside an enclosing block
C23_ExpectedBlock ==
    \A text \in {"lambda(x) 5", "{ lambda(x) 5 }"} :
        (Parsed /\ Text(text)) =>
            /\ IsErr(parsed)
            /\ parsed[2].label = "Expected a block"
            /\ parsed[2].help = <<"Some", "Create a block with enclosing braces">>

\* {Block: [{Def: [n1, 1]}, {Let: [n2, 2]}, {Def: [n3, 3]}]}
DefsJson(n1, n2, n3) ==
    json("Block", <<json("Def", <<Id(n1), Num(1)>>),
                    json("Let", <<Id(n2), Num(2)>>),
                    json("Def", <<Id(n3), Num(3)>>)>>)

\* C24: {def foo 1; let bar 2; def baz 3} parses to a block of a def, a let
\* and a def in the order of the source
C24_DefsInOrder ==
    /\ (Parsed /\ tokens = Containers(DefsTokens)) =>
            parsed = Ok(DefsJson("foo", "bar", "baz"))
    /\ (Parsed /\ Text(DefsText)) => parsed = Ok(DefsJson("a", "b", "c"))

\* every token of the slice has a source, as those that parse collects have
HasSources == \A k \in 1..Len(tokens) : LexToken_source(tokens[k])[1] = "Some"

\* C29: for every slice that ends with EOF parse_program returns a value or
\* a parse error and never aborts, also when `def` is followed by a token
\* that is no identifier, integer or string; the index of the current
\* token never passes the EOF token.  The formula asks this of the slices
\* of TokenContainer only
C29_ParserNeverAborts ==
    (Parsed /\ HasSources) =>
        /\ parsed[1] \in {"Ok", "Err"}
        /\ current <= Len(tokens) - 1

\* C30: when parse returns a value every token before EOF has been
\* consumed: left-over tokens as in `1 2` and `f(x) }`, expressions of a
\* block without a `;` between them and arguments without a `,` between
\* them are rejected
C30_AllTokensConsumed ==
    /\ (Parsed /\ IsOk(parsed)) => current = Len(tokens) - 1
    /\ \A text \in {"1 2", "f(x) }", "{1 2}", "f(x y)"} :
            (Parsed /\ Text(text)) => IsErr(parsed)

====
